---- MODULE Spec2Model ----
(***************************************************************************)
(* Model of the BCF plugin's programmatic interface                        *)
(* (bcfplugin/programmaticInterface.py) over the in-memory object model    *)
(* (bcfplugin/rdwr/markup.py, src/bcf/topic.py, src/bcf/project.py).       *)
(*                                                                         *)
(* Python objects live in `heap`, a function from addresses to cells.      *)
(* A cell has the class, the internal id (Identifiable), the state tag     *)
(* (State), the containingObject (Hierarchy), the wrapped value, the XML   *)
(* name and the ordered members `f`.  Python lists are cells of their own, *)
(* so that two owners holding the same list object are representable.      *)
(* Strings are coded as naturals (0 is the empty string), dates as         *)
(* naturals (0 is None), booleans as 0/1.                                  *)
(***************************************************************************)
EXTENDS Integers, Sequences, FiniteSets, TLC

\* ---------------------------------------------------------------- bounds
MaxTime == 2          \* state-changing calls per behaviour of Spec
MaxAdds == 4          \* state-changing calls per behaviour of SpecAdd
MaxModifies == 3      \* calls in a behaviour of SpecModify
MaxViewpoints == 2    \* viewpoint references of a markup under test
MaxReaderTopics == 2  \* topics in a project delivered by the reader
MaxCopies == 2        \* calls of copyFileToProject per behaviour of SpecCopy
MaxExisting == 2      \* highest number of a renamed file that exists beforehand

\* ------------------------------------------------------- program constants
NULL == 0             \* None as an object reference
NONE == 0             \* None as a date / uri value
EMPTY == 0            \* the empty string ""
DefaultIndex == 0 - 1 \* SimpleElement(index, "Index", -1, self)
DefaultComments == 1  \* address of the list() default of Markup.__init__(comments)
DefaultViewpoints == 2 \* address of the list() default of Markup.__init__(viewpoints)

States == {"ORIGINAL", "ADDED", "MODIFIED", "DELETED"}

\* classes inheriting from interfaces.Identifiable
IdentifiableClasses == {"Project", "Markup", "Topic", "Comment",
    "ViewpointReference", "Viewpoint", "Header", "HeaderFile",
    "DocumentReference", "SimpleElement", "Attribute", "ModificationDate",
    "ModificationAuthor"}

WrapperClasses == {"SimpleElement", "Attribute", "ModificationDate",
    "ModificationAuthor"}

\* ------------------------------------------------------------ small helpers
Max(S) == CHOOSE x \in S : \A y \in S : y <= x

Range(s) == {s[i] : i \in DOMAIN s}

RECURSIVE SeqOfSet(_)
SeqOfSet(S) == IF S = {} THEN <<>>
               ELSE LET m == CHOOSE x \in S : \A y \in S : x <= y
                    IN <<m>> \o SeqOfSet(S \ {m})

Obj(cls, id, state, co, val, tag, f) ==
    [cls |-> cls, id |-> id, state |-> state, co |-> co, val |-> val,
     tag |-> tag, f |-> f]

\* a Python list object
ListObj(items) == Obj("list", 0, "NONE", NULL, 0, "list", items)

\* members of a cell that are object references (a SimpleList holds plain values)
Children(h, a) ==
    IF a \notin DOMAIN h \/ h[a].cls = "SimpleList" THEN <<>>
    ELSE SelectSeq(h[a].f, LAMBDA x : x # NULL)

\* ------------------------------------------------------------ field layout
\* position of each member in `f`, per class
M_header == 1      \* Markup
M_topic == 2
M_comments == 3
M_viewpoints == 4
C_comment == 1     \* Comment
C_viewpoint == 2
C_date == 3
C_author == 4
C_modDate == 5
C_modAuthor == 6
T_title == 1       \* Topic
T_date == 2
T_author == 3
T_type == 4
T_status == 5
T_referenceLinks == 6
T_docRefs == 7
T_priority == 8
T_index == 9
T_labels == 10
T_modDate == 11
T_modAuthor == 12
T_dueDate == 13
T_assignee == 14
T_description == 15
T_stage == 16
T_relatedTopics == 17
T_bimSnippet == 18
V_file == 1        \* ViewpointReference
V_snapshot == 2
V_index == 3
V_viewpoint == 4
P_name == 1        \* Project
P_extSchemaSrc == 2
P_topicList == 3
H_files == 1       \* Header

\* ------------------------------------------------------------ constructors
\* Every constructor builds its cells at the addresses base+1, base+2, ...;
\* the internal id Identifiable.__init__ assigns is the (never reused)
\* address of the cell.

\* SimpleElement / Attribute / ModificationDate / ModificationAuthor
Wrapper(cls, a, owner, val, tag) == Obj(cls, a, "ORIGINAL", owner, val, tag, <<>>)

TopicSize == 18
NewTopic(base, guid, title, date, author, index, labels, co) ==
    LET t == base + 1
        w(k) == t + k
    IN  (t :> Obj("Topic", t, "ORIGINAL", co, guid, "Topic",
                  <<w(1), w(2), w(3), w(4), w(5), w(6), w(7), w(8), w(9),
                    w(10), w(11), w(12), w(13), w(14), w(15), w(16), w(17),
                    NULL>>))
        @@ (w(1) :> Wrapper("SimpleElement", w(1), t, title, "Title"))
        @@ (w(2) :> Wrapper("ModificationDate", w(2), t, date, "Date"))
        @@ (w(3) :> Wrapper("ModificationAuthor", w(3), t, author, "Author"))
        @@ (w(4) :> Wrapper("Attribute", w(4), t, EMPTY, "TopicType"))
        @@ (w(5) :> Wrapper("Attribute", w(5), t, EMPTY, "TopicStatus"))
        @@ (w(6) :> Obj("SimpleList", 0, "ORIGINAL", t, EMPTY, "ReferenceLink", <<>>))
        @@ (w(7) :> ListObj(<<>>))
        @@ (w(8) :> Wrapper("SimpleElement", w(8), t, EMPTY, "Priority"))
        @@ (w(9) :> Wrapper("SimpleElement", w(9), t, index, "Index"))
        @@ (w(10) :> Obj("SimpleList", 0, "ORIGINAL", t, EMPTY, "Labels", labels))
        @@ (w(11) :> Wrapper("ModificationDate", w(11), t, NONE, "ModifiedDate"))
        @@ (w(12) :> Wrapper("ModificationAuthor", w(12), t, EMPTY, "ModifiedAuthor"))
        @@ (w(13) :> Wrapper("SimpleElement", w(13), t, NONE, "DueDate"))
        @@ (w(14) :> Wrapper("SimpleElement", w(14), t, EMPTY, "AssignedTo"))
        @@ (w(15) :> Wrapper("SimpleElement", w(15), t, EMPTY, "Description"))
        @@ (w(16) :> Wrapper("SimpleElement", w(16), t, EMPTY, "Stage"))
        @@ (w(17) :> Obj("SimpleList", 0, "ORIGINAL", t, EMPTY, "RelatedTopic", <<>>))

CommentSize == 6
NewComment(base, guid, date, author, text, viewpoint, co, state) ==
    LET c == base + 1
        w(k) == c + k
    IN  (c :> Obj("Comment", c, state, co, guid, "Comment",
                  <<w(1), viewpoint, w(2), w(3), w(4), w(5)>>))
        @@ (w(1) :> Wrapper("SimpleElement", w(1), c, text, "Comment"))
        @@ (w(2) :> Wrapper("ModificationDate", w(2), c, date, "Date"))
        @@ (w(3) :> Wrapper("ModificationAuthor", w(3), c, author, "Author"))
        @@ (w(4) :> Wrapper("ModificationDate", w(4), c, NONE, "ModifiedDate"))
        @@ (w(5) :> Wrapper("ModificationAuthor", w(5), c, EMPTY, "ModifiedAuthor"))

ViewpointReferenceSize == 5
NewViewpointReference(base, guid, file, index, co, state) ==
    LET v == base + 1
        w(k) == v + k
    IN  (v :> Obj("ViewpointReference", v, state, co, guid, "Viewpoints",
                  <<w(1), w(2), w(3), w(4)>>))
        @@ (w(1) :> Wrapper("SimpleElement", w(1), v, file, "Viewpoint"))
        @@ (w(2) :> Wrapper("SimpleElement", w(2), v, NONE, "Snapshot"))
        @@ (w(3) :> Wrapper("SimpleElement", w(3), v, index, "Index"))
        @@ (w(4) :> Obj("Viewpoint", w(4), "ORIGINAL", v, guid, "VisualizationInfo", <<>>))

HeaderFileSize == 7
NewHeaderFile(base, ifcProjectId, ifcSpatial, isExternal, filename, time, reference, state, co) ==
    LET hf == base + 1
        w(k) == hf + k
    IN  (hf :> Obj("HeaderFile", hf, state, co, 0, "File",
                   <<w(1), w(2), w(3), w(4), w(5), w(6)>>))
        @@ (w(1) :> Wrapper("Attribute", w(1), hf, ifcProjectId, "IfcProject"))
        @@ (w(2) :> Wrapper("Attribute", w(2), hf, ifcSpatial, "IfcSpatialStructureElement"))
        @@ (w(3) :> Wrapper("Attribute", w(3), hf, isExternal, "isExternal"))
        @@ (w(4) :> Wrapper("SimpleElement", w(4), hf, filename, "Filename"))
        @@ (w(5) :> Wrapper("SimpleElement", w(5), hf, time, "Date"))
        @@ (w(6) :> Wrapper("SimpleElement", w(6), hf, reference, "Reference"))

DocumentReferenceSize == 5
NewDocumentReference(base, guid, isExternal, reference, description, co, state) ==
    LET d == base + 1
        w(k) == d + k
    IN  (d :> Obj("DocumentReference", d, state, co, 0, "DocumentReference",
                  <<w(1), w(2), w(3), w(4)>>))
        @@ (w(1) :> Wrapper("Attribute", w(1), d, guid, "Guid"))
        @@ (w(2) :> Wrapper("Attribute", w(2), d, isExternal, "isExternal"))
        @@ (w(3) :> Wrapper("SimpleElement", w(3), d, reference, "ReferencedDocument"))
        @@ (w(4) :> Wrapper("SimpleElement", w(4), d, description, "Description"))

\* listSetContainingElement(itemList, containingObject), from item i on
RECURSIVE SetContaining(_, _, _, _)
SetContaining(h, items, owner, i) ==
    IF i > Len(items) THEN h
    ELSE SetContaining(IF items[i] = NULL THEN h
                       ELSE [h EXCEPT ![items[i]].co = owner],
                       items, owner, i + 1)

listSetContainingElement(h, items, owner) == SetContaining(h, items, owner, 1)

\* Header.__init__(files, containingElement, state); `files` is a list object
NewHeader(h, a, files, co, state) ==
    LET h1 == h @@ (a :> Obj("Header", a, state, co, 0, "Header", <<files>>))
    IN  listSetContainingElement(h1, h1[files].f, a)

\* Markup.__init__(topic, header, comments, viewpoints, ..., containingElement,
\* state); `comments` and `viewpoints` are list objects, the defaults being
\* the two lists created once when the class is defined
NewMarkup(h, a, topic, header, comments, viewpoints, co, state) ==
    LET h1 == h @@ (a :> Obj("Markup", a, state, co, 0, "Markup",
                             <<header, topic, comments, viewpoints>>))
        h2 == listSetContainingElement(h1, h1[viewpoints].f, a)
        h3 == listSetContainingElement(h2, h2[comments].f, a)
    IN  listSetContainingElement(h3, <<topic, header>>, a)

ProjectSize == 4
NewProject(base, name) ==
    LET p == base + 1
    IN  (p :> Obj("Project", p, "ORIGINAL", NULL, 0, "Project",
                  <<p + 1, p + 2, p + 3>>))
        @@ (p + 1 :> Wrapper("SimpleElement", p + 1, p, name, "Name"))
        @@ (p + 2 :> Wrapper("SimpleElement", p + 2, p, NONE, "ExtensionSchema"))
        @@ (p + 3 :> ListObj(<<>>))

\* -------------------------------------------------------------- accessors
Field(h, a, k) == h[a].f[k]
Items(h, l) == h[l].f
Value(h, a, k) == h[h[a].f[k]].val
topicList(h, p) == Items(h, Field(h, p, P_topicList))
comments(h, m) == Items(h, Field(h, m, M_comments))
viewpoints(h, m) == Items(h, Field(h, m, M_viewpoints))
IsA(h, a, cls) == a \in DOMAIN h /\ h[a].cls = cls

\* list.append(x) on the list object l
Append_(h, l, x) == [h EXCEPT ![l].f = Append(@, x)]

\* ---------------------------------------------------------------- closure
RECURSIVE Down(_, _)
Down(h, S) ==
    LET N == S \cup UNION {Range(Children(h, a)) : a \in S}
    IN  IF N = S THEN S ELSE Down(h, N)

\* everything the garbage collector keeps alive from `roots`
RECURSIVE Alive(_, _)
Alive(h, S) ==
    LET N == (S \cup UNION {Range(Children(h, a)) : a \in S}
                \cup {h[a].co : a \in S \cap DOMAIN h}) \ {NULL}
        N2 == N \cap DOMAIN h
    IN  IF N2 = S THEN S ELSE Alive(h, N2)

Restrict(h, S) == [a \in S \cap DOMAIN h |-> h[a]]

\* ------------------------------------------------------------- searchObject
\* a search that forgets the header of the markup
MarkupSearchOrder_NoHeader(h, a) ==
    <<h[a].f[M_topic]>> \o Items(h, h[a].f[M_comments])
        \o Items(h, h[a].f[M_viewpoints])

\* Markup.searchObject: searchables = [self.header, self.topic] +
\* self.comments + self.viewpoints
MarkupSearchOrder(h, a) ==
    <<h[a].f[M_header], h[a].f[M_topic]>> \o Items(h, h[a].f[M_comments])
        \o Items(h, h[a].f[M_viewpoints])

\* the members a class hands to searchListObject, in the order of its
\* searchObject method
SearchOrder(h, a) ==
    LET c == h[a].cls
        f == h[a].f
    IN  CASE c = "Markup" -> MarkupSearchOrder(h, a)
          [] c = "Topic" ->
               <<f[T_title], f[T_date], f[T_author], f[T_type], f[T_status],
                 f[T_priority], f[T_index], f[T_modDate], f[T_modAuthor],
                 f[T_dueDate], f[T_assignee], f[T_description], f[T_stage],
                 f[T_bimSnippet]>> \o Items(h, f[T_docRefs])
          [] c = "Header" -> Items(h, f[H_files])
          [] c = "Project" -> Items(h, f[P_topicList])
          [] c \in {"Comment", "HeaderFile", "ViewpointReference",
                    "DocumentReference"} -> f
          [] OTHER -> <<>>

RECURSIVE SearchObject(_, _, _), searchListObject(_, _, _, _)
\* <cls>.searchObject(object): the address of the first cell, in search
\* order, whose internal id is the object's, or NULL
SearchObject(h, a, object) ==
    IF object.cls \notin IdentifiableClasses THEN NULL
    ELSE IF a = NULL \/ a \notin DOMAIN h THEN NULL
    ELSE IF h[a].id = object.id THEN a
    ELSE searchListObject(h, SearchOrder(h, a), object, 1)

searchListObject(h, elementList, object, i) ==
    IF i > Len(elementList) THEN NULL
    ELSE LET r == SearchObject(h, elementList[i], object)
         IN  IF r # NULL THEN r
             ELSE searchListObject(h, elementList, object, i + 1)

\* ---------------------------------------------------------------- deepcopy
\* the order in which <cls>.__deepcopy__ copies the members
DeepcopyOrder(h, a) ==
    LET f == h[a].f
    IN  IF h[a].cls = "Markup"
        THEN <<f[M_topic], f[M_header], f[M_comments], f[M_viewpoints]>>
        ELSE IF h[a].cls = "SimpleList" THEN <<>> ELSE f

\* a copy that does not call listSetContainingElement
Stampees_None(h, a) == <<>>

\* the members whose containingObject a freshly built copy sets to itself
Stampees(h, a) ==
    IF h[a].cls \in {"list", "SimpleList", "Viewpoint"} \cup WrapperClasses
    THEN <<>>
    ELSE SeqOfSet(UNION {IF h[x].cls = "list" THEN Range(h[x].f) ELSE {x} :
                    x \in Range(h[a].f) \ {NULL}} \ {NULL})

RECURSIVE CopyVisit(_, _, _), CopyVisitSeq(_, _, _, _)
\* the order in which the __deepcopy__ methods below a finish building their
\* copy; st.seen is copy.deepcopy's memo: an object is copied once
CopyVisit(h, st, a) ==
    IF a = NULL \/ a \in st.seen THEN st
    ELSE LET st2 == CopyVisitSeq(h, [st EXCEPT !.seen = @ \cup {a}],
                                 DeepcopyOrder(h, a), 1)
         IN  [st2 EXCEPT !.order = Append(@, a)]

CopyVisitSeq(h, st, s, i) ==
    IF i > Len(s) THEN st
    ELSE CopyVisitSeq(h, CopyVisit(h, st, s[i]), s, i + 1)

\* a copy that holds the members of the original
CopyCell_Shallow(h, a, K) == [h[a] EXCEPT !.co = NULL]

\* the cell of the copy of a: class, id, state and value are kept,
\* containingObject starts as None, members are the copies of the members
CopyCell(h, a, K) ==
    [h[a] EXCEPT !.co = NULL,
                 !.f = IF h[a].cls = "SimpleList" THEN @
                       ELSE [k \in DOMAIN @ |->
                               IF @[k] = NULL THEN NULL ELSE @[k] + K]]

\* the addresses of the copies of the cells in s
Shift(s, K) == [j \in DOMAIN s |-> s[j] + K]

RECURSIVE StampCopies(_, _, _, _, _)
\* each finished copy sets the containingObject of its members to itself
StampCopies(h, hc, order, K, i) ==
    IF DOMAIN hc = {} \/ i > Len(order) THEN hc
    ELSE StampCopies(h,
            SetContaining(hc, Shift(Stampees(h, order[i]), K), order[i] + K, 1),
            order, K, i + 1)

\* copy.deepcopy(root): the heap h extended by the copy; the copy of the
\* cell at address a is at address a + K
DeepCopy(h, root, K) ==
    LET R == Down(h, {root})
        raw == h @@ [n \in {a + K : a \in R} |-> CopyCell(h, n - K, K)]
        order == CopyVisit(h, [seen |-> {}, order |-> <<>>], root).order
    IN  StampCopies(h, raw, order, K, 1)

\* ------------------------------------------------------------------- state
VARIABLES
    heap,            \* the Python objects
    top,             \* highest address handed out so far
    curProject,      \* programmaticInterface.curProject (NULL is None)
    projectUpdates,  \* writer.projectUpdates, the pending updates
    now,             \* number of state-changing calls so far; the clock
    last             \* the call that just returned, for the caller to see

vars == <<heap, top, curProject, projectUpdates, now, last>>

UnknownId == 0 - 1   \* internal id of an object that is in no project
ReaderEpoch == 4     \* datetime.now() is later than every date in a file

\* utc.localize(datetime.datetime.now())
DateTimeNow == ReaderEpoch + now

\* the author argument of a call is kept as a one-element sequence; a call
\* that takes no author has none
NoAuthor == <<>>

Idle == [op |-> "idle", author |-> NoAuthor, result |-> "NONE", commit |-> "none",
         target |-> <<>>, node |-> NULL, ret |-> <<>>, pre |-> <<>>]

\* the snapshot of the program state a call starts from
Snapshot == <<[heap |-> heap, curProject |-> curProject,
               projectUpdates |-> projectUpdates, top |-> top]>>

\* what the caller, and the next call, can see of a call: the operation, the
\* internal ids of the objects it was given (target), what it returned
\* (result, and ret for a list), whether it reached the writer (commit), the
\* node it worked on and, for an operation that reached the writer, the
\* pending updates the writer was asked to process (ret)
Returned(op, by, result, commit, target, node, ret) ==
    [op |-> op, author |-> by, result |-> result, commit |-> commit,
     target |-> target, node |-> node, ret |-> ret, pre |-> Snapshot]

\* what stays allocated: the current project, the two default lists of
\* Markup.__init__, and the nodes the pending updates refer to
Collect(h, cur, updates) ==
    Restrict(h, Alive(h, ({cur, DefaultComments, DefaultViewpoints} \ {NULL}))
                \cup Down(h, {updates[i].node : i \in DOMAIN updates} \ {NULL}))

\* isProjectOpen()
isProjectOpen == curProject # NULL

\* _searchRealTopic(topic)
searchRealTopic(h, topic) == SearchObject(h, curProject, topic)

\* writer.addProjectUpdate(project, element, prevVal); an update keeps the
\* node (or, for a plain value such as a label, the value) and the previous
\* value.  `st` records the state tag the node had when it was submitted.
Update(h, node, lit, prev) ==
    [node |-> node, lit |-> lit, prev |-> prev,
     st |-> IF node # NULL THEN h[node].state ELSE "NONE"]

addProjectUpdate(updates, h, node, lit, prev) ==
    Append(updates, Update(h, node, lit, prev))

\* writer.processProjectUpdates(): None (here NULL-valued `failed`) when all
\* pending updates were written, else the k-th update as the failing one.
\* Success drains the pending list, failure leaves it as it is.
processProjectUpdates(updates, fail, k) ==
    [failed |-> fail,
     node |-> IF fail THEN updates[k].node ELSE NULL,
     updates |-> IF fail THEN updates ELSE <<>>]

\* the writer either writes every pending update (0) or fails at the k-th
FailChoices(updates) == {0} \cup DOMAIN updates

\* _handleProjectUpdate(errMsg, backup): the function does not declare
\* `global curProject`, so `curProject = backup` binds a local name and the
\* module's curProject stays what it is
handleProjectUpdate(updates, backup, k) ==
    LET errorenousUpdate == processProjectUpdates(updates, k # 0, k)
    IN  [result |-> IF errorenousUpdate.failed THEN "FAILURE" ELSE "SUCCESS",
         commit |-> IF errorenousUpdate.failed THEN "fail" ELSE "ok",
         updates |-> errorenousUpdate.updates,
         curProject |-> curProject]

\* ------------------------------------------------------------------- reader
ReaderIndex(i) == CASE i = 1 -> 2 [] i = 3 -> 0 [] OTHER -> DefaultIndex

MarkupBlock == TopicSize + 3
\* one markup.bcf with nothing but a topic, appended to project p
ReadMarkup(h, base, p, index) ==
    LET m == base + MarkupBlock
        h1 == h @@ NewTopic(base, base + 1, 1, 1, 1, index, <<>>, m)
                @@ (m - 2 :> ListObj(<<>>)) @@ (m - 1 :> ListObj(<<>>))
        h2 == NewMarkup(h1, m, base + 1, NULL, m - 2, m - 1, p, "ORIGINAL")
    IN  Append_(h2, Field(h2, p, P_topicList), m)

RichBlock == 2 * CommentSize + ViewpointReferenceSize + HeaderFileSize + 2
                + DocumentReferenceSize
\* header, comments, a viewpoint and a document reference for markup m
ReadRichParts(h, base, m) ==
    LET v == base + 1
        c1 == v + ViewpointReferenceSize
        c2 == c1 + CommentSize
        hf == c2 + CommentSize
        fl == hf + HeaderFileSize
        hd == fl + 1
        dr == hd + 1
        t == Field(h, m, M_topic)
        h1 == h @@ NewViewpointReference(base, v, 1, DefaultIndex, m, "ORIGINAL")
                @@ NewComment(c1 - 1, c1, 3, 1, 1, v, m, "ORIGINAL")
                @@ NewComment(c2 - 1, c2, 2, 2, 1, NULL, m, "ORIGINAL")
                @@ NewHeaderFile(hf - 1, 1, 1, 0, 1, 1, 1, "ORIGINAL", hd)
                @@ (fl :> ListObj(<<hf>>))
                @@ NewDocumentReference(dr - 1, 1, 1, 1, 1, t, "ORIGINAL")
        h2 == NewHeader(h1, hd, fl, m, "ORIGINAL")
        h3 == [h2 EXCEPT ![m].f[M_header] = hd,
                         ![Field(h, m, M_viewpoints)].f = <<v>>,
                         ![Field(h, m, M_comments)].f = <<c1, c2>>,
                         ![Field(h, t, T_docRefs)].f = <<dr>>,
                         ![Field(h, t, T_labels)].f = <<1>>]
    IN  h3

RECURSIVE ReadMarkups(_, _, _, _, _)
ReadMarkups(h, base, p, i, n) ==
    IF i > n THEN h
    ELSE ReadMarkups(ReadMarkup(h, base, p, ReaderIndex(i)),
                     base + MarkupBlock, p, i + 1, n)

\* reader.readBcfFile(bcfFile): a project with n topics; the project with one
\* topic has a header, two comments, a viewpoint and a document reference
readBcfFile(h, base, n) ==
    LET p == base + 1
        h1 == ReadMarkups(h @@ NewProject(base, 1), base + ProjectSize, p, 1, n)
    IN  IF n = 1
        THEN ReadRichParts(h1, base + ProjectSize + MarkupBlock,
                           base + ProjectSize + MarkupBlock)
        ELSE h1

ReadSize(n) == ProjectSize + n * MarkupBlock + (IF n = 1 THEN RichBlock ELSE 0)

\* ---------------------------------------------------------------- actions
Init ==
    /\ heap = (DefaultComments :> ListObj(<<>>)) @@ (DefaultViewpoints :> ListObj(<<>>))
    /\ top = 2
    /\ curProject = NULL
    /\ projectUpdates = <<>>
    /\ now = 0
    /\ last = Idle

\* the caller takes the result; the next call can start
Return ==
    /\ last.op # "idle"
    /\ last' = Idle
    /\ UNCHANGED <<heap, top, curProject, projectUpdates, now>>

\* a call can start when the previous one has returned.  Once a failed
\* deleteObject has left something that is no Project in curProject, only
\* openProject is followed.
CanCall == /\ last.op = "idle"
           /\ curProject = NULL \/ IsA(heap, curProject, "Project")

\* an openProject that leaves a project that is open where it is
ProjectAfterOpen_Keep(project) == IF curProject # NULL THEN curProject ELSE project

\* curProject = project, once the file exists and the reader returned a
\* project
ProjectAfterOpen(project) == project

\* what openProject met: os.path.exists(bcfFile), and whether
\* reader.readBcfFile returned a project (it is not called for a file that
\* does not exist)
Opened(exists, n) ==
    <<[exists |-> exists, read |-> IF exists /\ n > 0 THEN "Project" ELSE "None"]>>

\* openProject(bcfFile); the reader returns None (n = 0) or a project with
\* n topics
openProject ==
    /\ last.op = "idle"
    /\ \E exists \in BOOLEAN, n \in 0 .. MaxReaderTopics :
        IF ~exists \/ n = 0
        THEN /\ last' = Returned("openProject", NoAuthor, "FAILURE", "none", <<>>,
                                 NULL, Opened(exists, n))
             /\ UNCHANGED <<heap, top, curProject, projectUpdates, now>>
        ELSE /\ curProject' = ProjectAfterOpen(top + 1)
             /\ heap' = Collect(readBcfFile(heap, top, n), ProjectAfterOpen(top + 1),
                                projectUpdates)
             /\ top' = top + ReadSize(n)
             /\ now' = now + 1
             /\ last' = Returned("openProject", NoAuthor, "SUCCESS", "none", <<>>,
                                 top + 1, Opened(exists, n))
             /\ UNCHANGED projectUpdates

\* projectBackup = copy.deepcopy(curProject), taken when a call starts: the
\* copy of the cell at address a is the cell at address Backup(a)
Backup(a) == IF a = NULL THEN NULL ELSE a + top
projectBackup == IF curProject = NULL THEN heap
                 ELSE DeepCopy(heap, curProject, top)

\* the objects a caller can pass as topic: a copy of a topic of the open
\* project (getTopics hands out copies) or a topic of no project
LiveOf(cls) ==
    IF curProject = NULL THEN {}
    ELSE {a \in Down(heap, {curProject}) : heap[a].cls = cls}

Unknown(cls) == Obj(cls, UnknownId, "ORIGINAL", NULL, 0, cls, <<>>)

Args(cls) == {heap[a] : a \in LiveOf(cls)} \cup {Unknown(cls)}

Texts == {1}
Authors == {EMPTY, 1}
AddAuthors == {1}   \* authors of new topics and comments

\* an operation that returns before it changed anything
Fails(op, by, result, target) ==
    /\ last' = Returned(op, by, result, "none", target, NULL, <<>>)
    /\ UNCHANGED <<heap, top, curProject, projectUpdates, now>>

\* a comment that is appended without its containingObject being set
CommentAdded_NoParent(h, base, realMarkup, text, author) ==
    LET h1 == h @@ NewComment(base, base + 1, DateTimeNow, author, text, NULL,
                              NULL, "ADDED")
    IN  Append_(h1, Field(h1, realMarkup, M_comments), base + 1)

\* addComment, the creation of the comment: the heap after
\*     comment = Comment(guid, localisedDate, author, text, viewpoint,
\*             containingElement = realMarkup, state = state)
\*     realMarkup.comments.append(comment)
\* with the comment built at base + 1
CommentAdded(h, base, realMarkup, text, author) ==
    LET h1 == h @@ NewComment(base, base + 1, DateTimeNow, author, text, NULL,
                              realMarkup, "ADDED")
    IN  Append_(h1, Field(h1, realMarkup, M_comments), base + 1)

\* an addComment that, like _handleProjectUpdate, assigns a local name
ProjectAfterAddComment_Local(failed) == curProject

\* addComment, after the writer ran: `curProject = projectBackup` when it
\* reported a failing update (addComment declares `global curProject`)
ProjectAfterAddComment(failed) ==
    IF failed THEN Backup(curProject) ELSE curProject

\* addComment(topic, text, author)
addComment ==
    /\ CanCall
    /\ \E topic \in Args("Topic"), text \in Texts, author \in AddAuthors :
       \E realTopic \in {searchRealTopic(heap, topic)} :
        LET base == 2 * top
            realMarkup == heap[realTopic].co
            comment == base + 1
            h2 == CommentAdded(heap, base, realMarkup, text, author)
            updates == addProjectUpdate(projectUpdates, h2, comment, 0, NONE)
        IN  IF ~isProjectOpen \/ realTopic = NULL
            THEN Fails("addComment", NoAuthor, "FAILURE", <<topic.id>>)
            ELSE IF ~IsA(heap, realMarkup, "Markup")
            THEN \* None has no attribute `comments`
                 Fails("addComment", NoAuthor, "RAISED", <<topic.id>>)
            ELSE \E k \in FailChoices(updates) :
                 LET fail == k # 0
                     errorenousUpdate == processProjectUpdates(updates, fail, k)
                     cur == ProjectAfterAddComment(fail)
                 IN  /\ curProject' = cur
                     /\ projectUpdates' = errorenousUpdate.updates
                     /\ heap' = Collect(IF fail THEN h2 @@ projectBackup ELSE h2,
                                        cur, errorenousUpdate.updates)
                     /\ top' = base + CommentSize
                     /\ now' = now + 1
                     /\ last' = Returned("addComment", NoAuthor,
                                    IF fail THEN "FAILURE" ELSE "SUCCESS",
                                    IF fail THEN "fail" ELSE "ok",
                                    <<topic.id>>, comment, updates)

\* the common end of the operations that commit with _handleProjectUpdate:
\* h is the heap after the mutation, size the number of cells it allocated
Commit(op, by, h, updates, size, target, node) ==
    \E k \in FailChoices(updates) :
        LET r == handleProjectUpdate(updates, Backup(curProject), k)
        IN  /\ curProject' = r.curProject
            /\ projectUpdates' = r.updates
            /\ heap' = Collect(h, r.curProject, r.updates)
            /\ top' = 2 * top + size
            /\ now' = now + 1
            /\ last' = Returned(op, by, r.result, r.commit, target, node, updates)

Indices == {DefaultIndex, 1}

\* addTopic(title, author, index = -1)
addTopic ==
    /\ CanCall
    /\ \E title \in Texts, author \in AddAuthors, index \in Indices :
        LET base == 2 * top
            newMarkup == base + 1
            newTopic == base + 2
            \* Markup(None, state = ADDED, containingElement = curProject):
            \* comments and viewpoints are the default lists
            h1 == NewMarkup(heap, newMarkup, NULL, NULL, DefaultComments,
                            DefaultViewpoints, curProject, "ADDED")
            h2 == Append_(h1, Field(h1, curProject, P_topicList), newMarkup)
            h3 == h2 @@ NewTopic(base + 1, newTopic, title, DateTimeNow, author,
                                 index, <<>>, newMarkup)
            h4 == [h3 EXCEPT ![newMarkup].f[M_topic] = newTopic]
            updates == addProjectUpdate(projectUpdates, h4, newMarkup, 0, NONE)
        IN  IF ~isProjectOpen
            THEN Fails("addTopic", NoAuthor, "FAILURE", <<>>)
            ELSE Commit("addTopic", NoAuthor, h4, updates, 1 + TopicSize, <<>>, newMarkup)

Labels == {EMPTY, 1}

\* addLabel(topic, label)
addLabel ==
    /\ CanCall
    /\ \E topic \in Args("Topic"), label \in Labels :
       \E realTopic \in {searchRealTopic(heap, topic)} :
        LET h1 == Append_(heap, Field(heap, realTopic, T_labels), label)
            updates == addProjectUpdate(projectUpdates, h1, NULL, label, NONE)
        IN  IF label = EMPTY \/ ~isProjectOpen \/ realTopic = NULL
            THEN Fails("addLabel", NoAuthor, "FAILURE", <<topic.id>>)
            ELSE Commit("addLabel", NoAuthor, h1, updates, 0, <<topic.id>>, realTopic)

\* addDocumentReference(topic, guid = "", isExternal, path, description)
addDocumentReference ==
    /\ CanCall
    /\ \E topic \in Args("Topic"), isExternal \in BOOLEAN, path \in {EMPTY, 1} :
       \E realTopic \in {searchRealTopic(heap, topic)} :
        LET description == path
            base == 2 * top
            docRef == base + 1
            h1 == heap @@ NewDocumentReference(base, docRef,
                              IF isExternal THEN 1 ELSE 0, path, description,
                              realTopic, "ADDED")
            h2 == Append_(h1, Field(h1, realTopic, T_docRefs), docRef)
            updates == addProjectUpdate(projectUpdates, h2, docRef, 0, NONE)
        IN  IF path = EMPTY /\ description = EMPTY
            THEN Fails("addDocumentReference", NoAuthor, "FAILURE", <<topic.id>>)
            ELSE IF ~isExternal
            THEN \* util.doesFileExistInProject(topic, path): the function
                 \* takes one argument, the call is a TypeError
                 Fails("addDocumentReference", NoAuthor, "RAISED", <<topic.id>>)
            ELSE IF ~isProjectOpen \/ realTopic = NULL
            THEN Fails("addDocumentReference", NoAuthor, "FAILURE", <<topic.id>>)
            ELSE Commit("addDocumentReference", NoAuthor, h2, updates,
                        DocumentReferenceSize, <<topic.id>>, docRef)

\* IFC guids a caller passes: 1 is a well-formed guid, 2 is not
IfcGuids == {1, 2}

\* the string behind a guid: its length and the kinds of characters in it
IfcGuidText(guid) ==
    CASE guid = EMPTY -> [len |-> 0, chars |-> {}]
      [] guid = 1 -> [len |-> 22, chars |-> {"alnum", "_", "$"}]
      [] OTHER -> [len |-> 21, chars |-> {"alnum"}]

\* _isIfcGuid(guid): 22 characters that fully match "[0-9,A-Z,a-z,_$]*",
\* a class that holds the comma as well
isIfcGuid(guid) ==
    /\ IfcGuidText(guid).len = 22
    /\ IfcGuidText(guid).chars \subseteq {"alnum", ",", "_", "$"}

\* `if not _isIfcGuid(guid) or guid == "":` in addFile: the guid is reported
\* with util.printErr; the branch has no return and addFile goes on
ReportedAsInvalid(guid) == ~isIfcGuid(guid) \/ guid = EMPTY

\* addFile(topic, ifcProject, ifcSpatialStructureElement, isExternal,
\*         filename, reference); an invalid guid is reported and used
addFile ==
    /\ CanCall
    /\ \E topic \in Args("Topic"), ifcProject \in IfcGuids, exists \in BOOLEAN :
       \E realTopic \in {searchRealTopic(heap, topic)} :
        LET base == 2 * top
            newFile == base + 1
            files == base + HeaderFileSize + 1
            header == base + HeaderFileSize + 2
            realMarkup == heap[realTopic].co
            h1 == heap @@ NewHeaderFile(base, ifcProject, 1, 0, 1, DateTimeNow,
                                        1, "ADDED", NULL)
            hasHeader == Field(heap, realMarkup, M_header) # NULL
            \* realMarkup.header = Header([newFile]), state ADDED
            h2 == IF hasHeader
                  THEN Append_(h1, Field(h1, Field(h1, realMarkup, M_header),
                                         H_files), newFile)
                  ELSE [NewHeader(h1 @@ (files :> ListObj(<<newFile>>)),
                                  header, files, realMarkup, "ADDED")
                            EXCEPT ![realMarkup].f[M_header] = header]
            h3 == [h2 EXCEPT ![newFile].co = Field(h2, realMarkup, M_header)]
            u1 == IF hasHeader THEN projectUpdates
                  ELSE addProjectUpdate(projectUpdates, h2, header, 0, NONE)
            updates == addProjectUpdate(u1, h3, newFile, 0, NONE)
        IN  IF ~exists \/ ~isProjectOpen \/ realTopic = NULL
            THEN Fails("addFile", NoAuthor, "FAILURE", <<topic.id>>)
            ELSE IF ~IsA(heap, realMarkup, "Markup")
            THEN Fails("addFile", NoAuthor, "RAISED", <<topic.id>>)
            ELSE Commit("addFile", NoAuthor, h3, updates, HeaderFileSize + 2, <<topic.id>>,
                        newFile)

\* a caller's object: a node of the open project itself ("live"), a deep
\* copy of one ("copy", what the get* functions hand out), an object of no
\* project ("unknown") or a plain string ("str")
Modes == {"live", "copy"}

\* Project.deleteObject(object): unlink the node with the object's id from
\* the collection of its parent
ProjectDeleteObject(h, p, object) ==
    LET real == SearchObject(h, p, object)
        parent == IF real = NULL THEN NULL ELSE h[real].co
        lists == {x \in Range(Children(h, parent)) : h[x].cls = "list"}
    IN  IF real = NULL \/ parent \notin DOMAIN h THEN h
        ELSE [x \in DOMAIN h |->
                IF x \in lists
                THEN [h[x] EXCEPT !.f = SelectSeq(@, LAMBDA y : y # real)]
                ELSE IF x = parent /\ h[x].cls # "SimpleList"
                THEN [h[x] EXCEPT !.f = [k \in DOMAIN @ |->
                                           IF @[k] = real THEN NULL ELSE @[k]]]
                ELSE h[x]]

DeletableClasses == {"Comment", "ViewpointReference", "DocumentReference",
                     "HeaderFile"}

\* deleteObject(object) once projectCpy = copy.deepcopy(curProject) is taken
\* and newObject = projectCpy.searchObject(object) is found; k = 0 is the
\* writer succeeding
DeleteCommit(projectCpy, newObject, object, k) ==
    LET updates == addProjectUpdate(projectUpdates, projectCpy, newObject, 0, NONE)
        result == processProjectUpdates(updates, k # 0, k)
    IN  IF result.failed
        THEN \* curProject = result[0]
             [result |-> "FAILURE", commit |-> "fail", heap |-> projectCpy,
              curProject |-> result.node, updates |-> result.updates,
              node |-> newObject, sent |-> updates]
        ELSE [result |-> "SUCCESS", commit |-> "ok",
              heap |-> ProjectDeleteObject(projectCpy, curProject, object),
              curProject |-> curProject, updates |-> result.updates,
              node |-> newObject, sent |-> updates]

\* the heap after `object.state = State.States.DELETED`, a being the address
\* of the object when it is a node of the open project
MarkDeleted(a, mode) ==
    IF mode = "live" /\ a # NULL THEN [heap EXCEPT ![a].state = "DELETED"]
    ELSE heap

\* the k a failing writer can pick when one more update is pending
FailChoicesNext == 0 .. Len(projectUpdates) + 1

\* a call of deleteObject, or of modifyComment with an empty newText, which
\* hands the comment to deleteObject and returns SUCCESS whatever that returns
Deletes(op, by, a, object, mode) ==
    IF object.cls \notin IdentifiableClasses \/ ~isProjectOpen
    THEN Fails(op, by, IF op # "deleteObject" THEN "SUCCESS" ELSE "FAILURE",
               <<object.id>>)
    ELSE \E projectCpy \in {DeepCopy(MarkDeleted(a, mode), curProject, top)} :
         \E newObject \in {SearchObject(projectCpy, Backup(curProject), object)} :
         \E k \in FailChoicesNext :
         \E o \in {DeleteCommit(projectCpy, newObject, object, k)} :
            /\ curProject' = o.curProject
            /\ projectUpdates' = o.updates
            /\ heap' = Collect(o.heap, o.curProject, o.updates)
            /\ top' = 2 * top
            /\ now' = now + 1
            /\ last' = Returned(op, by,
                         IF op # "deleteObject" THEN "SUCCESS" ELSE o.result,
                         o.commit, <<object.id>>, o.node, o.sent)

\* deleteObject(object)
deleteObject ==
    /\ CanCall
    /\ \/ \E cls \in DeletableClasses : \E a \in LiveOf(cls), mode \in Modes :
            Deletes("deleteObject", NoAuthor, a, heap[a], mode)
       \/ \E object \in {Unknown("Comment"), Unknown("str")} :
            Deletes("deleteObject", NoAuthor, NULL, object, "copy")

\* setModDateAuthor(element, author, addUpdate); st is [h, updates]
setModDateAuthor(st, element, author, addUpdate) ==
    LET h == st.h
        modDate == DateTimeNow
        mD == Field(h, element, IF h[element].cls = "Topic" THEN T_modDate
                                ELSE C_modDate)
        mA == Field(h, element, IF h[element].cls = "Topic" THEN T_modAuthor
                                ELSE C_modAuthor)
        oldDate == h[mD].val
        oldAuthor == h[mA].val
        h1 == [h EXCEPT ![mD].val = modDate, ![mA].val = author]
        h2 == [h1 EXCEPT ![mD].state = "MODIFIED"]
        u2 == addProjectUpdate(st.updates, h2, mD, 0, oldDate)
        h3 == [h2 EXCEPT ![mA].state = "MODIFIED"]
        u3 == addProjectUpdate(u2, h3, mA, 0, oldDate)
    IN  IF addUpdate THEN [h |-> h3, updates |-> u3]
        ELSE [h |-> h1, updates |-> st.updates]

NewTexts == {EMPTY, 2}

\* modifyComment(comment, newText, author)
modifyComment ==
    /\ CanCall
    /\ \E comment \in Args("Comment"), newText \in NewTexts, author \in Authors :
       \E realComment \in {SearchObject(heap, curProject, comment)} :
        LET text == Field(heap, realComment, C_comment)
            oldVal == heap[text].val
            h1 == [heap EXCEPT ![text].val = newText]
            h2 == [h1 EXCEPT ![text].state = "MODIFIED"]
            u1 == addProjectUpdate(projectUpdates, h2, text, 0, oldVal)
            st == setModDateAuthor([h |-> h2, updates |-> u1], realComment,
                                   author, TRUE)
        IN  IF newText = EMPTY
            THEN \* deleteObject(comment); return OperationResults.SUCCESS
                 Deletes("modifyCommentEmpty", <<author>>, NULL, comment, "copy")
            ELSE IF author = EMPTY \/ ~isProjectOpen
            THEN Fails("modifyComment", <<author>>, "FAILURE", <<comment.id>>)
            ELSE IF realComment = NULL
            THEN \* `return OperationResulsts.FAILURE` is a NameError
                 Fails("modifyComment", <<author>>, "RAISED", <<comment.id>>)
            ELSE Commit("modifyComment", <<author>>, st.h, st.updates, 0, <<comment.id>>,
                        realComment)

\* Hierarchy.getHierarchyList(): the node and its containing objects, upwards
RECURSIVE getHierarchyList(_, _, _)
getHierarchyList(h, a, n) ==
    IF a = NULL \/ a \notin DOMAIN h \/ n = 0 THEN <<>>
    ELSE <<a>> \o getHierarchyList(h, h[a].co, n - 1)

\* getTopic(element), called from inside the module: the topic of the first
\* Markup or the first Topic in the hierarchy of the real element
getTopic(h, realElement) ==
    LET elemHierarchy == getHierarchyList(h, realElement, Cardinality(DOMAIN h))
        hits == {i \in DOMAIN elemHierarchy :
                    h[elemHierarchy[i]].cls \in {"Markup", "Topic"}}
        elem == elemHierarchy[CHOOSE i \in hits : \A j \in hits : i <= j]
    IN  IF hits = {} THEN NULL
        ELSE IF h[elem].cls = "Markup" THEN Field(h, elem, M_topic) ELSE elem

\* the element a caller passes to modifyElement: a deep copy of the node at
\* address a, built at a + K, whose first member the caller set to NewValue
NewValue == 2
EditedCopy(h, a, K) ==
    LET hE == DeepCopy(h, a, K)
    IN  [hE EXCEPT ![Field(hE, a + K, 1)].val = NewValue]

\* for property, value in vars(element).items():
\*     setattr(realElement, property, copy.deepcopy(value))
\* hE holds the element at address e.  Every attribute is replaced, the
\* containingObject, id and state included; each member is the root of a
\* deep copy of its own, which has no containingObject.
CopyVars(hE, realElement, e) ==
    SetContaining([hE EXCEPT ![realElement] = [hE[e] EXCEPT !.co = NULL]],
                  Stampees(hE, e), NULL, 1)

ModifiableClasses == {"Comment", "Topic", "DocumentReference"}

\* a pop that leaves the list as it is
popUpdate_Keep(updates) == updates

\* writer.projectUpdates.pop(len(writer.projectUpdates)-1)
popUpdate(updates) == SubSeq(updates, 1, Len(updates) - 1)

\* a submission that is dropped when the node already has a pending update
submitInState_Once(st, node, state) ==
    LET h1 == [st.h EXCEPT ![node].state = state]
    IN  [h |-> h1,
         updates |-> IF \E i \in DOMAIN st.updates : st.updates[i].node = node
                     THEN st.updates
                     ELSE addProjectUpdate(st.updates, h1, node, 0, NONE)]

\* realElement.state = state; writer.addProjectUpdate(curProject, realElement,
\* None); st is [h, updates]
submitInState(st, node, state) ==
    LET h1 == [st.h EXCEPT ![node].state = state]
    IN  [h |-> h1, updates |-> addProjectUpdate(st.updates, h1, node, 0, NONE)]

\* modifyElement(element, author) for an element that was found as
\* realElement; hE is the heap with the caller's element at address e
ModifyFound(hE, element, realElement, e, author) ==
    LET sD == submitInState([h |-> hE, updates |-> projectUpdates],
                            realElement, "DELETED")
        u1 == sD.updates
        h1 == CopyVars(sD.h, realElement, e)
        st == IF h1[realElement].cls \in {"Topic", "Comment"}
              THEN setModDateAuthor([h |-> h1, updates |-> u1], realElement,
                                    author, FALSE)
              ELSE [h |-> h1, updates |-> u1]
        sA == submitInState(st, realElement, "ADDED")
        h2 == sA.h
        u2 == sA.updates
    IN  IF getTopic(hE, realElement) = NULL
        THEN Fails("modifyElement", <<author>>, "FAILURE", <<element.id>>)
        ELSE IF h1[realElement].cls \in {"Topic", "Comment"} /\ author = EMPTY
        THEN \* curProject = projectBackup; writer.projectUpdates.pop(...)
             \* the nodes of the abandoned project stay as they were changed
             /\ curProject' = Backup(curProject)
             /\ projectUpdates' = popUpdate(u1)
             /\ heap' = Collect(h1 @@ DeepCopy(heap, curProject, top),
                                Backup(curProject), popUpdate(u1))
             /\ top' = 3 * top
             /\ now' = now + 1
             /\ last' = Returned("modifyElement", <<author>>, "FAILURE", "none",
                                 <<element.id>>, realElement, <<>>)
        ELSE Commit("modifyElement", <<author>>, h2, u2, top, <<element.id>>, realElement)

\* modifyElement(element, author = "")
modifyElement ==
    /\ CanCall
    /\ \/ \E cls \in ModifiableClasses : \E a \in LiveOf(cls), author \in Authors :
          \E realElement \in {SearchObject(heap, curProject, heap[a])} :
          \E hE \in {EditedCopy(heap, a, 2 * top)} :
             ModifyFound(hE, heap[a], realElement, a + 2 * top, author)
       \/ \E element \in {Unknown("Comment"), Unknown("str")}, author \in Authors :
             \* no project, not an object of the data model, or not found
             Fails("modifyElement", <<author>>, "FAILURE", <<element.id>>)

\* addViewpointToComment(comment, viewpoint, author) once both are found;
\* vp is the address of the caller's viewpoint object in h
AssignViewpoint(h, comment, realComment, vp, author) ==
    LET modDate == DateTimeNow
        h1 == [h EXCEPT ![realComment].state = "DELETED"]
        u1 == addProjectUpdate(projectUpdates, h1, realComment, 0, NONE)
        h2 == [h1 EXCEPT ![realComment].f[C_viewpoint] = vp,
                         ![realComment].state = "ADDED"]
        u2 == addProjectUpdate(u1, h2, realComment, 0, NONE)
        mD == Field(h, realComment, C_modDate)
        mA == Field(h, realComment, C_modAuthor)
        oldDate == h[mD].val
        h3 == [h2 EXCEPT ![mD].val = modDate, ![mD].state = "MODIFIED"]
        u3 == addProjectUpdate(u2, h3, mD, 0, oldDate)
        oldAuthor == h[mA].val
        h4 == [h3 EXCEPT ![mA].val = author, ![mA].state = "MODIFIED"]
        u4 == addProjectUpdate(u3, h4, mA, 0, oldAuthor)
    IN  Commit("addViewpointToComment", <<author>>, h4, u4, top,
               <<comment.id, h[vp].id>>, realComment)

addViewpointToComment ==
    /\ CanCall
    /\ \E comment \in Args("Comment"), author \in Authors :
       \E realComment \in {SearchObject(heap, curProject, comment)} :
        \/ \E v \in LiveOf("ViewpointReference"), mode \in Modes :
           \E realViewpoint \in {SearchObject(heap, curProject, heap[v])} :
             IF author = EMPTY \/ ~isProjectOpen \/ realComment = NULL
                \/ realViewpoint = NULL
             THEN Fails("addViewpointToComment", <<author>>, "FAILURE",
                        <<comment.id, heap[v].id>>)
             ELSE IF mode = "live"
             THEN AssignViewpoint(heap, comment, realComment, v, author)
             ELSE AssignViewpoint(DeepCopy(heap, v, 2 * top), comment,
                                  realComment, v + 2 * top, author)
        \/ \* a viewpoint reference of no project, or no project open
           Fails("addViewpointToComment", <<author>>, "FAILURE",
                 <<comment.id, UnknownId>>)

\* ------------------------------------------------------------ read access
\* sorted(items, key): Python's sort is stable
RECURSIVE InsertByKey(_, _, _, _)
InsertByKey(s, x, h, k) ==
    IF s = <<>> THEN <<x>>
    ELSE IF Value(h, x, k) < Value(h, s[1], k) THEN <<x>> \o s
    ELSE <<s[1]>> \o InsertByKey(Tail(s), x, h, k)

RECURSIVE SortedByKey(_, _, _)
SortedByKey(s, h, k) ==
    IF s = <<>> THEN <<>>
    ELSE InsertByKey(SortedByKey(SubSeq(s, 1, Len(s) - 1), h, k), s[Len(s)], h, k)

RECURSIVE MoveDefaults(_, _, _)
\* for i in range(0, len(topics)): the loop of getTopics that moves the
\* topics without an index to the end
MoveDefaults(topics, h, i) ==
    IF i > Len(topics) THEN topics
    ELSE IF Value(h, topics[i], T_index) # DefaultIndex THEN topics
    ELSE MoveDefaults(SubSeq(topics, 1, i - 1) \o SubSeq(topics, i + 1, Len(topics))
                        \o <<topics[i]>>, h, i + 1)

\* the list getTopics returns, as the addresses of the topics copied
TopicsInOrder(h, p) ==
    LET topics == [i \in DOMAIN topicList(h, p) |->
                      Field(h, topicList(h, p)[i], M_topic)]
    IN  MoveDefaults(SortedByKey(topics, h, T_index), h, 1)

Ids(h, s) == [i \in DOMAIN s |-> h[s[i]].id]

\* getTopics()
getTopics ==
    /\ CanCall
    /\ last' = IF ~isProjectOpen
               THEN Returned("getTopics", NoAuthor, "FAILURE", "none", <<>>, NULL, <<>>)
               ELSE Returned("getTopics", NoAuthor, "LIST", "none", <<>>, NULL,
                             Ids(heap, TopicsInOrder(heap, curProject)))
    /\ UNCHANGED <<heap, top, curProject, projectUpdates, now>>

\* _filterCommentsForViewpoint(comments, viewpoint) for a viewpoint that
\* was found as realVp
filterCommentsForViewpoint(h, cms, realVp) ==
    LET realVpRef == h[realVp].co
    IN  SelectSeq(cms, LAMBDA c : Field(h, c, C_viewpoint) # NULL
                    /\ h[Field(h, c, C_viewpoint)].id = h[realVpRef].id)

\* getComments(topic, viewpoint = None); vp is NULL for no viewpoint
GetComments(topic, viewpoint) ==
    LET given == IF viewpoint.cls = "None" THEN <<topic.id>>
                 ELSE <<topic.id, viewpoint.id>>
        realTopic == searchRealTopic(heap, topic)
        markup == heap[realTopic].co
        cms == SortedByKey(comments(heap, markup), heap, C_date)
        realVp == SearchObject(heap, curProject, viewpoint)
        hasRef == \E i \in DOMAIN cms : Field(heap, cms[i], C_viewpoint) # NULL
    IN  IF ~isProjectOpen \/ realTopic = NULL
        THEN Returned("getComments", NoAuthor, "FAILURE", "none", given, NULL, <<>>)
        ELSE IF ~IsA(heap, markup, "Markup")
        THEN Returned("getComments", NoAuthor, "RAISED", "none", given, NULL, <<>>)
        ELSE IF viewpoint.cls = "None"
        THEN Returned("getComments", NoAuthor, "LIST", "none", given, NULL, Ids(heap, cms))
        ELSE IF realVp = NULL \/ (heap[realVp].co \notin DOMAIN heap /\ hasRef)
        THEN \* None has no attribute `containingObject` (or `id`)
             Returned("getComments", NoAuthor, "RAISED", "none", given, realVp, <<>>)
        ELSE Returned("getComments", NoAuthor, "LIST", "none", given, realVp,
                      Ids(heap, filterCommentsForViewpoint(heap, cms, realVp)))

getComments ==
    /\ CanCall
    /\ \E topic \in Args("Topic"),
          viewpoint \in Args("Viewpoint") \cup {Unknown("None")} :
          last' = GetComments(topic, viewpoint)
    /\ UNCHANGED <<heap, top, curProject, projectUpdates, now>>

\* getViewpoints(topic): the viewpoints of the topic's viewpoint references
GetViewpoints(topic) ==
    LET realTopic == searchRealTopic(heap, topic)
        markup == heap[realTopic].co
        vps == [i \in DOMAIN viewpoints(heap, markup) |->
                   Field(heap, viewpoints(heap, markup)[i], V_viewpoint)]
    IN  IF ~isProjectOpen \/ realTopic = NULL
        THEN Returned("getViewpoints", NoAuthor, "FAILURE", "none", <<topic.id>>, NULL, <<>>)
        ELSE IF ~IsA(heap, markup, "Markup")
        THEN Returned("getViewpoints", NoAuthor, "RAISED", "none", <<topic.id>>, NULL, <<>>)
        ELSE Returned("getViewpoints", NoAuthor, "LIST", "none", <<topic.id>>, NULL,
                      [i \in DOMAIN vps |->
                          IF vps[i] = NULL THEN 0 ELSE heap[vps[i]].id])

getViewpoints ==
    /\ CanCall
    /\ \E topic \in Args("Topic") : last' = GetViewpoints(topic)
    /\ UNCHANGED <<heap, top, curProject, projectUpdates, now>>

\* getRelevantIfcFiles(topic): the copies of the files of the header that
\* have an ifcProjectId and a reference other than the default ""
GetRelevantIfcFiles(topic) ==
    LET realTopic == searchRealTopic(heap, topic)
        markup == heap[realTopic].co
        header == Field(heap, markup, M_header)
        files == Items(heap, Field(heap, header, H_files))
        relevant == SelectSeq(files, LAMBDA file :
                        /\ Value(heap, file, 1) # EMPTY
                        /\ Value(heap, file, HeaderFileSize - 1) # EMPTY)
    IN  IF ~isProjectOpen \/ realTopic = NULL
        THEN Returned("getRelevantIfcFiles", NoAuthor, "FAILURE", "none",
                      <<topic.id>>, NULL, <<>>)
        ELSE IF ~IsA(heap, markup, "Markup")
        THEN \* None has no attribute `header`
             Returned("getRelevantIfcFiles", NoAuthor, "RAISED", "none",
                      <<topic.id>>, NULL, <<>>)
        ELSE Returned("getRelevantIfcFiles", NoAuthor, "LIST", "none",
                      <<topic.id>>, NULL,
                      IF header = NULL THEN <<>> ELSE Ids(heap, relevant))

getRelevantIfcFiles ==
    /\ CanCall
    /\ \E topic \in Args("Topic") : last' = GetRelevantIfcFiles(topic)
    /\ UNCHANGED <<heap, top, curProject, projectUpdates, now>>

\* getAdditionalDocumentReferences(topic): the copies of realTopic.docRefs
GetAdditionalDocumentReferences(topic) ==
    LET realTopic == searchRealTopic(heap, topic)
    IN  IF ~isProjectOpen \/ realTopic = NULL
        THEN Returned("getAdditionalDocumentReferences", NoAuthor, "FAILURE",
                      "none", <<topic.id>>, NULL, <<>>)
        ELSE Returned("getAdditionalDocumentReferences", NoAuthor, "LIST",
                      "none", <<topic.id>>, NULL,
                      Ids(heap, Items(heap, Field(heap, realTopic, T_docRefs))))

getAdditionalDocumentReferences ==
    /\ CanCall
    /\ \E topic \in Args("Topic") :
          last' = GetAdditionalDocumentReferences(topic)
    /\ UNCHANGED <<heap, top, curProject, projectUpdates, now>>

\* the calls that change nothing are free; MaxTime bounds the others
Next ==
    \/ Return
    \/ getTopics
    \/ getComments
    \/ getViewpoints
    \/ getRelevantIfcFiles
    \/ getAdditionalDocumentReferences
    \/ now < MaxTime /\ openProject
    \/ now < MaxTime /\ addTopic
    \/ now < MaxTime /\ addComment
    \/ now < MaxTime /\ addLabel
    \/ now < MaxTime /\ addDocumentReference
    \/ now < MaxTime /\ addFile
    \/ now < MaxTime /\ deleteObject
    \/ now < MaxTime /\ modifyComment
    \/ now < MaxTime /\ modifyElement
    \/ now < MaxTime /\ addViewpointToComment

Spec == Init /\ [][Next]_vars

\* the writer wrote every update of the call
WriterWorks == last'.commit # "fail"

\* the operations that add to an open project, followed for MaxAdds calls
\* with a writer that never fails
NextAdd ==
    \/ Return
    \/ now < MaxAdds /\ openProject
    \/ now < MaxAdds /\ addTopic /\ WriterWorks
    \/ now < MaxAdds /\ addComment /\ WriterWorks
    \/ now < MaxAdds /\ addFile /\ WriterWorks
    \/ now < MaxAdds /\ addDocumentReference /\ WriterWorks

SpecAdd == Init /\ [][NextAdd]_vars

\* the operations that change nodes in place, after one that leaves pending
\* updates behind when the writer fails
NextModify ==
    \/ Return
    \/ now < MaxModifies /\ openProject
    \/ now < MaxModifies /\ addLabel
    \/ now < MaxModifies /\ modifyComment
    \/ now < MaxModifies /\ modifyElement
    \/ now < MaxModifies /\ addViewpointToComment
SpecModify == Init /\ [][NextModify]_vars

TypeOK == /\ curProject \in DOMAIN heap \cup {NULL}
          /\ now \in 0 .. Max({MaxTime, MaxAdds, MaxModifies, MaxCopies})

\* ------------------------------------------------------------ properties
\* what a deep comparison of two object graphs sees of the node at address a:
\* class, internal id, state, value, XML name and the members in order;
\* addresses and containingObject do not take part
RECURSIVE Shape(_, _)
Shape(h, a) ==
    IF a = NULL \/ a \notin DOMAIN h THEN [cls |-> "None"]
    ELSE [cls |-> h[a].cls, id |-> h[a].id, state |-> h[a].state,
          val |-> h[a].val, tag |-> h[a].tag,
          f |-> IF h[a].cls = "SimpleList" THEN h[a].f
                ELSE [k \in DOMAIN h[a].f |-> Shape(h, h[a].f[k])]]

\* the program state the call that just returned started from
Pre == last.pre[1]

\* the live project deep-equals the project the call started from
ProjectAsBefore ==
    Shape(heap, curProject) = Shape(Pre.heap, Pre.curProject)

HandledOps == {"addTopic", "addLabel", "addDocumentReference", "addFile",
               "modifyComment", "modifyElement", "addViewpointToComment"}

\* C1: when the writer reports a failing update to addTopic, addLabel,
\* addDocumentReference, addFile, modifyComment (with a text), modifyElement
\* or addViewpointToComment, the operation returns FAILURE and the live
\* project deep-equals the project before the call
C1_FailedCommitRestoresProject ==
    (last.op \in HandledOps /\ last.commit = "fail")
        => (last.result = "FAILURE" /\ ProjectAsBefore)

\* C2: when the writer reports a failing update to addComment, it returns
\* FAILURE, the live project is the deep copy taken when the call started
\* (a new object that deep-equals the project before the call), and no
\* comment list of the project holds the new comment
C2_AddCommentRestoresProject ==
    (last.op = "addComment" /\ last.commit = "fail")
        => /\ last.result = "FAILURE"
           /\ curProject \notin DOMAIN Pre.heap
           /\ IsA(heap, curProject, "Project")
           /\ ProjectAsBefore
           /\ \A a \in Down(heap, {curProject}) : a # last.node
           /\ \A a \in LiveOf("Comment") : heap[a].id # last.node

C2_Witness ==
    /\ last.op = "addComment" /\ last.commit = "fail"
    /\ \E a \in LiveOf("Comment") : TRUE

\* C3: when the writer reports a failing update to deleteObject, it returns
\* FAILURE and the live project is still a Project that deep-equals the
\* project before the call
C3_FailedDeleteKeepsProject ==
    (last.op = "deleteObject" /\ last.commit = "fail")
        => /\ last.result = "FAILURE"
           /\ IsA(heap, curProject, "Project")
           /\ ProjectAsBefore

\* the topics of the open project, and the index of the topic with an id
LiveTopics == {Field(heap, m, M_topic) : m \in Range(topicList(heap, curProject))}
IndexOfTopic(id) ==
    Value(heap, CHOOSE t \in LiveTopics : heap[t].id = id, T_index)

\* C4: getTopics returns one entry per topic of the open project, every
\* topic with an index before every topic without one (index -1), the
\* topics with an index in ascending order of the index
C4_TopicsOrdered ==
    (last.op = "getTopics" /\ last.result = "LIST")
        => /\ Len(last.ret) = Len(topicList(heap, curProject))
           /\ Range(last.ret) = {heap[t].id : t \in LiveTopics}
           /\ \A i, j \in DOMAIN last.ret :
                (i < j /\ IndexOfTopic(last.ret[j]) # DefaultIndex)
                    => /\ IndexOfTopic(last.ret[i]) # DefaultIndex
                       /\ IndexOfTopic(last.ret[i]) <= IndexOfTopic(last.ret[j])

\* the nodes of the open project, and the classes the search is asked for
LiveNodes == Down(heap, {curProject})
SearchedClasses == {"Markup", "Header", "HeaderFile", "Topic", "Comment",
                    "ViewpointReference"}

\* a deep copy of the node at address a whose fields the caller changed
ChangedCopy(a) ==
    [heap[a] EXCEPT !.co = NULL, !.val = NewValue, !.state = "MODIFIED"]

\* C5: between two calls, searching the open project for a deep copy of one of its markups,
\* headers, header files, topics, comments or viewpoint references, be the
\* fields of the copy changed or not, returns a node of the project with the
\* id of that node; searching for an object whose id no node has, or that
\* is not Identifiable, returns None
C5_SearchFindsById ==
    (last.op = "idle" /\ IsA(heap, curProject, "Project"))
        => /\ \A a \in LiveNodes : heap[a].cls \in SearchedClasses
                => \A E \in {[heap[a] EXCEPT !.co = NULL], ChangedCopy(a)} :
                   \E r \in {SearchObject(heap, curProject, E)} :
                      /\ r \in LiveNodes
                      /\ heap[r].id = heap[a].id
                      /\ heap[r].cls = heap[a].cls
           /\ SearchObject(heap, curProject, Unknown("Comment")) = NULL
           /\ SearchObject(heap, curProject, Unknown("str")) = NULL

C5_Witness ==
    /\ last.op = "idle"
    /\ IsA(heap, curProject, "Project")
    /\ \A cls \in SearchedClasses : \E a \in LiveNodes : heap[a].cls = cls
    /\ \E a, b \in LiveNodes :
         a # b /\ heap[a].cls = "Comment" /\ heap[b].cls = "Comment"

\* the collections of the data model: the parent and the list of members
Markups == Range(topicList(heap, curProject))
Collections ==
    {<<curProject, topicList(heap, curProject)>>}
    \cup {<<m, comments(heap, m)>> : m \in Markups}
    \cup {<<m, viewpoints(heap, m)>> : m \in Markups}
    \cup {<<Field(heap, m, M_header),
            Items(heap, Field(heap, Field(heap, m, M_header), H_files))>> :
            m \in {x \in Markups : Field(heap, x, M_header) # NULL}}
    \cup {<<Field(heap, m, M_topic),
            Items(heap, Field(heap, Field(heap, m, M_topic), T_docRefs))>> :
            m \in {x \in Markups : Field(heap, x, M_topic) # NULL}}

\* C6: after successful addTopic, addComment, addFile and
\* addDocumentReference calls every member of a collection has the owner of
\* the collection as containingObject and is in no collection of another
\* owner
C6_HierarchyIsTree ==
    IsA(heap, curProject, "Project")
        => /\ \A c \in Collections : \A x \in Range(c[2]) : heap[x].co = c[1]
           /\ \A c, d \in Collections :
                c[1] # d[1] => Range(c[2]) \cap Range(d[2]) = {}

\* C7: when the writer succeeds, addComment returns SUCCESS, the comment
\* list of the topic's markup is the list before the call followed by one
\* new Comment with the text and the author given, state ADDED and the
\* markup as containingObject, and the one update handed to the writer on
\* top of those pending is that comment with previous value None
C7_AddCommentAppends ==
    (last.op = "addComment" /\ last.commit = "ok")
        => \E t \in LiveOf("Topic") :
            LET m == heap[t].co
                c == last.node
            IN  /\ heap[t].id = last.target[1]
                /\ last.result = "SUCCESS"
                /\ comments(heap, m) = Append(comments(Pre.heap, m), c)
                /\ c \notin DOMAIN Pre.heap
                /\ heap[c].cls = "Comment"
                /\ Value(heap, c, C_comment) \in Texts
                /\ Value(heap, c, C_author) \in AddAuthors
                /\ heap[c].state = "ADDED"
                /\ heap[c].co = m
                /\ last.ret = Append(Pre.projectUpdates,
                                [node |-> c, lit |-> 0, prev |-> NONE,
                                 st |-> "ADDED"])

C7_Witness ==
    /\ last.op = "addComment" /\ last.commit = "ok"
    /\ \E m \in Markups : Len(comments(heap, m)) > 2

CopiedClasses == {"Markup", "Header", "HeaderFile", "Comment",
                  "ViewpointReference"}

NoProjectOps == {"getTopics", "getComments", "getViewpoints", "addTopic",
                 "addComment", "addLabel", "modifyComment",
                 "modifyCommentEmpty", "modifyElement", "deleteObject"}

\* C9: with no project open, getTopics, getComments, getViewpoints,
\* addTopic, addComment, addLabel, modifyComment (with a text or with the
\* empty text), modifyElement and deleteObject return FAILURE, raise
\* nothing, hand no update to the writer and leave curProject None
C9_NoProjectFails ==
    (last.op \in NoProjectOps /\ Pre.curProject = NULL)
        => /\ last.result = "FAILURE"
           /\ last.commit = "none"
           /\ projectUpdates = Pre.projectUpdates
           /\ curProject = NULL

LookupOps == {"getComments", "getViewpoints", "addComment", "addLabel",
              "modifyComment", "modifyCommentEmpty", "modifyElement",
              "addViewpointToComment"}

\* C10: when an object given to getComments (the viewpoint included),
\* getViewpoints, addComment, addLabel, modifyComment, modifyElement or
\* addViewpointToComment has an id no node of the open project has, the
\* operation returns FAILURE, raises nothing and leaves the project and the
\* pending updates as they were
C10_UnknownTargetFails ==
    (last.op \in LookupOps /\ Pre.curProject # NULL
        /\ UnknownId \in Range(last.target))
        => /\ last.result = "FAILURE"
           /\ curProject = Pre.curProject
           /\ projectUpdates = Pre.projectUpdates
           /\ ProjectAsBefore


\* ------------------------------------------------------------ author unset
AuthorOps == {"modifyComment", "modifyElement", "addViewpointToComment"}

\* the call that just returned was given "" as author; for modifyElement the
\* element found, if one was found, is a Topic or a Comment
AuthorUnsetCall ==
    /\ last.op \in AuthorOps
    /\ last.author = <<EMPTY>>
    /\ (last.op = "modifyElement" /\ last.node # NULL)
          => Pre.heap[last.node].cls \in {"Topic", "Comment"}

\* C11: modifyComment with a text, modifyElement on a Topic or Comment and
\* addViewpointToComment, called with an empty author, return FAILURE, leave
\* a live project that deep-equals the project before the call, and leave
\* the pending updates as they were before the call
C11_AuthorUnsetFails ==
    AuthorUnsetCall
        => /\ last.result = "FAILURE"
           /\ ProjectAsBefore
           /\ projectUpdates = Pre.projectUpdates

\* modifyElement found a comment, submitted its removal, met the empty
\* author and replaced the project by the backup
C11_Witness ==
    /\ AuthorUnsetCall
    /\ last.op = "modifyElement"
    /\ last.node # NULL
    /\ Pre.heap[last.node].cls = "Comment"
    /\ curProject # Pre.curProject
    /\ Pre.projectUpdates # <<>>

\* ------------------------------------------------------- pending updates
\* modifyElement reached the writer
ModifyCommitted == last.op = "modifyElement" /\ last.commit # "none"

\* C12: when modifyElement reaches the commit, the updates handed to the
\* writer are the earlier pending updates, in their order, followed by two
\* updates for the modified node: the first submitted while its state was
\* DELETED, the second while it was ADDED
C12_ModifySubmitsTwoInOrder ==
    ModifyCommitted =>
        LET n == Len(Pre.projectUpdates)
        IN  /\ Len(last.ret) = n + 2
            /\ SubSeq(last.ret, 1, n) = Pre.projectUpdates
            /\ last.ret[n + 1].node = last.node
            /\ last.ret[n + 1].st = "DELETED"
            /\ last.ret[n + 2].node = last.node
            /\ last.ret[n + 2].st = "ADDED"

\* modifyElement committed while an update of an earlier call was pending
C12_Witness ==
    /\ ModifyCommitted
    /\ Pre.projectUpdates # <<>>
    /\ Len(last.ret) = Len(Pre.projectUpdates) + 2


\* ------------------------------------------------------- state transitions
\* the moves of a state tag: it stays, ORIGINAL becomes MODIFIED, or any tag
\* becomes DELETED
AllowedTransition(s, t) ==
    \/ s = t
    \/ s = "ORIGINAL" /\ t = "MODIFIED"
    \/ t = "DELETED"

\* the entities and field wrappers that exist before and after a step
Tagged == {a \in DOMAIN heap \cap DOMAIN heap' : heap[a].cls # "list"}

\* C13: over any sequence of operations the state tag of an entity or field
\* wrapper changes only from ORIGINAL to MODIFIED or from any tag to DELETED;
\* ADDED stays ADDED until it becomes DELETED and DELETED is never left
C13_StateTransitions ==
    [][\A a \in Tagged : AllowedTransition(heap[a].state, heap'[a].state)]_vars


\* ------------------------------------------------------- state aggregation
\* the outcome of getStateList(): the nodes of the (state, node) pairs in
\* list order, or an exception
StateList(list) == [raised |-> FALSE, list |-> list]
StateListRaises == [raised |-> TRUE, list |-> <<>>]

\* stateList += other
JoinStateLists(r, q) ==
    IF r.raised \/ q.raised THEN StateListRaises ELSE StateList(r.list \o q.list)

\* if not self.isOriginal(): stateList.append((self.state, self)); this is
\* also the whole getStateList() of a field wrapper and of a Viewpoint
OwnState(h, a) ==
    StateList(IF h[a].state # "ORIGINAL" THEN <<a>> ELSE <<>>)

\* the fields HeaderFile.getStateList() asks: _ifcProjectId,
\* _ifcSpatialStructureElement, _external, _filename, _reference (not _time)
HeaderFileStateFields == <<1, 2, 3, 4, 6>>

\* the fields ViewpointReference.getStateList() asks: _file, _snapshot,
\* _index and, when it is not None, _viewpoint
ViewpointReferenceStateFields == <<V_file, V_snapshot, V_index, V_viewpoint>>

\* getStateList() of the classes of markup.py, and of the Topic a Markup holds
RECURSIVE getStateList(_, _)
RECURSIVE StateListOfAll(_, _, _)
StateListOfAll(h, s, i) ==
    IF i > Len(s) THEN StateList(<<>>)
    ELSE IF s[i] = NULL THEN StateListOfAll(h, s, i + 1)
    ELSE JoinStateLists(getStateList(h, s[i]), StateListOfAll(h, s, i + 1))

getStateList(h, a) ==
    LET cls == h[a].cls
        fields(ks) == [k \in DOMAIN ks |-> Field(h, a, ks[k])]
    IN  CASE cls = "HeaderFile" ->
               JoinStateLists(OwnState(h, a),
                              StateListOfAll(h, fields(HeaderFileStateFields), 1))
          [] cls = "Header" ->
               JoinStateLists(OwnState(h, a),
                              StateListOfAll(h, Items(h, Field(h, a, H_files)), 1))
          [] cls = "ViewpointReference" ->
               JoinStateLists(OwnState(h, a),
                   StateListOfAll(h, fields(ViewpointReferenceStateFields), 1))
          [] cls = "Comment" ->
               \* self.creation: a Comment has no such attribute
               StateListRaises
          [] cls = "Topic" ->
               \* self.creation: a Topic has no such attribute
               StateListRaises
          [] cls = "Markup" ->
               JoinStateLists(OwnState(h, a),
                 JoinStateLists(getStateList(h, Field(h, a, M_topic)),
                   JoinStateLists(StateListOfAll(h, <<Field(h, a, M_header)>>, 1),
                     JoinStateLists(StateListOfAll(h, comments(h, a), 1),
                                    StateListOfAll(h, viewpoints(h, a), 1)))))
          [] OTHER -> OwnState(h, a)

StateListClasses == {"Markup", "Header", "HeaderFile", "Comment",
                     "ViewpointReference"}

\* the container at a and its descendants whose state is not ORIGINAL
Touched(h, a) ==
    {d \in Down(h, {a}) \ {NULL} : h[d].cls # "list" /\ h[d].state # "ORIGINAL"}

\* no node is listed twice
NoDuplicates(s) == \A i, j \in DOMAIN s : s[i] = s[j] => i = j

\* C14: for a Markup, Header, HeaderFile, Comment or ViewpointReference of
\* the open project, getStateList() returns exactly the (state, node) pairs
\* of the container and of all its descendants whose state is not ORIGINAL:
\* none missing, none twice, no ORIGINAL node
C14_StateListIsExact ==
    (last.op = "idle" /\ curProject # NULL) =>
        \A a \in LiveNodes \ {NULL} :
            heap[a].cls \in StateListClasses =>
                LET r == getStateList(heap, a)
                IN  /\ ~r.raised
                    /\ NoDuplicates(r.list)
                    /\ Range(r.list) = Touched(heap, a)


\* ---------------------------------------------------------------- equality
\* a == b for two objects that may be None, by the __eq__ of their class
NoneOr(h, a, g, b, Eq(_, _, _, _)) ==
    IF a = NULL \/ b = NULL THEN a = b ELSE Eq(h, a, g, b)

\* list.__eq__: the same length and equal elements, position by position
ListEq(h, s, g, t, Eq(_, _, _, _)) ==
    /\ Len(s) = Len(t)
    /\ \A i \in DOMAIN s : Eq(h, s[i], g, t[i])

\* XMLName.__eq__, which Header inherits: the tag names are equal
XMLNameEq(h, a, g, b) == h[a].cls = g[b].cls /\ h[a].tag = g[b].tag

\* SimpleList.__eq__
SimpleListEq(h, a, g, b) == h[a].f = g[b].f /\ XMLNameEq(h, a, g, b)

\* element-wise equality of a Viewpoint
ViewpointEq(h, a, g, b) == h[a].cls = g[b].cls /\ h[a].val = g[b].val

\* Topic.__checkNone(this, that)
checkNone(this, that) ==
    IF this # NONE /\ that # NONE THEN this = that
    ELSE this = NONE /\ that = NONE

\* DocumentReference.__eq__
DocumentReferenceEq(h, a, g, b) ==
    /\ h[a].cls = g[b].cls
    /\ \A k \in 1 .. 4 : Value(h, a, k) = Value(g, b, k)

\* ViewpointReference.__eq__
ViewpointReferenceEq(h, a, g, b) ==
    /\ h[a].cls = g[b].cls
    /\ h[a].val = g[b].val
    /\ \A k \in {V_file, V_snapshot, V_index} : Value(h, a, k) = Value(g, b, k)
    /\ NoneOr(h, Field(h, a, V_viewpoint), g, Field(g, b, V_viewpoint),
              ViewpointEq)

\* Comment.__eq__
CommentEq(h, a, g, b) ==
    /\ h[a].cls = g[b].cls
    /\ h[a].val = g[b].val
    /\ \A k \in {C_date, C_author, C_comment, C_modDate, C_modAuthor} :
          Value(h, a, k) = Value(g, b, k)
    /\ NoneOr(h, Field(h, a, C_viewpoint), g, Field(g, b, C_viewpoint),
              ViewpointReferenceEq)

\* the value Topic.__eq__ returns for two Topics.  The return expression
\* holds `self.modAuthor, other.modAuthor`: the comma makes it a tuple of
\* two conjunctions, the first ending in self.modAuthor, the second starting
\* with other.modAuthor
TopicEq(h, a, g, b) ==
    LET same(k) == Value(h, a, k) = Value(g, b, k)
        none(k) == checkNone(Value(h, a, k), Value(g, b, k))
        lists(k) == SimpleListEq(h, Field(h, a, k), g, Field(g, b, k))
    IN  << /\ h[a].val = g[b].val
           /\ same(T_title)
           /\ none(T_date)
           /\ same(T_author)
           /\ same(T_type)
           /\ same(T_status)
           /\ ListEq(h, Items(h, Field(h, a, T_docRefs)),
                     g, Items(g, Field(g, b, T_docRefs)), DocumentReferenceEq)
           /\ same(T_priority)
           /\ same(T_index)
           /\ lists(T_labels)
           /\ none(T_modDate)
           /\ Value(h, a, T_modAuthor) # EMPTY,
           /\ Value(g, b, T_modAuthor) # EMPTY
           /\ none(T_dueDate)
           /\ same(T_assignee)
           /\ same(T_description)
           /\ same(T_stage)
           /\ lists(T_relatedTopics)
           /\ Field(h, a, T_bimSnippet) = Field(g, b, T_bimSnippet) >>

\* the truth value of what a == b returned, for two objects of class Topic:
\* a tuple is true unless it is empty
TopicsCompareEqual(h, a, g, b) ==
    IF h[a].cls # g[b].cls THEN FALSE ELSE Len(TopicEq(h, a, g, b)) > 0

\* Markup.__eq__
MarkupEq(h, a, g, b) ==
    /\ h[a].cls = g[b].cls
    /\ NoneOr(h, Field(h, a, M_header), g, Field(g, b, M_header), XMLNameEq)
    /\ TopicsCompareEqual(h, Field(h, a, M_topic), g, Field(g, b, M_topic))
    /\ ListEq(h, comments(h, a), g, comments(g, b), CommentEq)
    /\ ListEq(h, viewpoints(h, a), g, viewpoints(g, b),
              ViewpointReferenceEq)

\* Project.__eq__
ProjectEq(h, a, g, b) ==
    /\ h[a].cls = g[b].cls
    /\ h[a].id = g[b].id
    /\ Value(h, a, P_name) = Value(g, b, P_name)
    /\ Value(h, a, P_extSchemaSrc) = Value(g, b, P_extSchemaSrc)
    /\ ListEq(h, topicList(h, a), g, topicList(g, b), MarkupEq)

\* every field of two Topics is equal
TopicFieldwise(h, a, g, b) ==
    /\ h[a].val = g[b].val
    /\ \A k \in {T_title, T_date, T_author, T_type, T_status, T_priority,
                  T_index, T_modDate, T_modAuthor, T_dueDate, T_assignee,
                  T_description, T_stage} :
          Value(h, a, k) = Value(g, b, k)
    /\ \A k \in {T_labels, T_relatedTopics} :
          SimpleListEq(h, Field(h, a, k), g, Field(g, b, k))
    /\ ListEq(h, Items(h, Field(h, a, T_docRefs)),
              g, Items(g, Field(g, b, T_docRefs)), DocumentReferenceEq)
    /\ Field(h, a, T_bimSnippet) = Field(g, b, T_bimSnippet)

\* header, topic, comments and viewpoints of two Markups are equal
MarkupFieldwise(h, a, g, b) ==
    /\ NoneOr(h, Field(h, a, M_header), g, Field(g, b, M_header), XMLNameEq)
    /\ TopicFieldwise(h, Field(h, a, M_topic), g, Field(g, b, M_topic))
    /\ ListEq(h, comments(h, a), g, comments(g, b), CommentEq)
    /\ ListEq(h, viewpoints(h, a), g, viewpoints(g, b),
              ViewpointReferenceEq)

\* the project a call started from and the live project are both Projects
TwoProjects ==
    /\ last.op # "idle"
    /\ IsA(Pre.heap, Pre.curProject, "Project")
    /\ IsA(heap, curProject, "Project")

\* C15: two Projects compare equal only if id, name and extSchemaSrc are
\* equal and the topic lists are equal element by element, two Markups being
\* equal only if header, topic, comments and viewpoints are equal and two
\* Topics only if every field is equal.  The two Projects are the project
\* before a call and the live project after it.
C15_EqualityIsFieldwise ==
    (TwoProjects /\ ProjectEq(Pre.heap, Pre.curProject, heap, curProject))
        => /\ heap[curProject].id = Pre.heap[Pre.curProject].id
           /\ Value(heap, curProject, P_name)
                = Value(Pre.heap, Pre.curProject, P_name)
           /\ Value(heap, curProject, P_extSchemaSrc)
                = Value(Pre.heap, Pre.curProject, P_extSchemaSrc)
           /\ ListEq(Pre.heap, topicList(Pre.heap, Pre.curProject),
                     heap, topicList(heap, curProject), MarkupFieldwise)


\* ------------------------------------------------- operations of one element
\* The methods of a single element of the data model are applied to an
\* element as its constructor builds it, with every combination of a default
\* and a non-default value in its fields.

\* True and False as field values
True == 1
False == 0

\* str(value): the text of a value is a string, which is no value of a field
\* and is never None
Str(v) == 0 - v - 3

\* the address of the element under test
Element == top + 1

\* the declared defaults (third argument of SimpleElement / Attribute in the
\* constructors), by field index
DefaultValues(cls) ==
    CASE cls = "HeaderFile" -> <<EMPTY, EMPTY, True, EMPTY, NONE, EMPTY>>
      [] cls = "ViewpointReference" -> <<NONE, NONE, DefaultIndex>>
      [] cls = "DocumentReference" -> <<0, False, NONE, EMPTY>>

\* a value that is no default of any field
NonDefault(cls, k) == IF DefaultValues(cls)[k] = 1 THEN 0 ELSE 1

\* every combination of default and non-default field values
FieldValues(cls) ==
    {v \in [DOMAIN DefaultValues(cls) -> {0 - 1, 0, 1}] :
        \A k \in DOMAIN v : v[k] \in {DefaultValues(cls)[k], NonDefault(cls, k)}}

SerializedClasses == {"HeaderFile", "ViewpointReference", "DocumentReference"}

\* the element the constructor of cls builds from the field values v
Constructed(cls, v) ==
    CASE cls = "HeaderFile" ->
           NewHeaderFile(2, v[1], v[2], v[3], v[4], v[5], v[6], "ORIGINAL", NULL)
      [] cls = "ViewpointReference" ->
           [NewViewpointReference(2, 1, v[1], v[3], NULL, "ORIGINAL")
               EXCEPT ![3 + V_snapshot].val = v[2]]
      [] cls = "DocumentReference" ->
           NewDocumentReference(2, v[1], v[2], v[3], v[4], NULL, "ORIGINAL")

\* the GUIDs of viewpoint references, and a GUID none of them has
ViewpointGuids == {1, 2}
AskedGuids == ViewpointGuids \cup {3}

\* the lists of GUIDs of up to MaxViewpoints viewpoint references
GuidLists == UNION {[1 .. n -> ViewpointGuids] : n \in 0 .. MaxViewpoints}

\* the viewpoint references from the i-th on, built one after the other from
\* address base on
RECURSIVE ViewpointCells(_, _, _)
ViewpointCells(guids, i, base) ==
    IF i > Len(guids) THEN <<>>
    ELSE NewViewpointReference(base + (i - 1) * ViewpointReferenceSize,
                               guids[i], 1, DefaultIndex, NULL, "ORIGINAL")
         @@ ViewpointCells(guids, i + 1, base)

\* Markup(topic, viewpoints = [ViewpointReference(guid) for guid in guids]),
\* whose viewpoints member is then set to None when noList holds
MarkupElement(guids, noList) ==
    LET m == 3
        t == m + 1
        cs == t + TopicSize
        vs == cs + 1
        vp(i) == vs + (i - 1) * ViewpointReferenceSize + 1
        h1 == (cs :> ListObj(<<>>)) @@ (vs :> ListObj([i \in DOMAIN guids |-> vp(i)]))
              @@ NewTopic(m, t, 1, 1, 1, DefaultIndex, <<>>, NULL)
              @@ ViewpointCells(guids, 1, vs)
        h2 == NewMarkup(h1, m, t, NULL, cs, vs, NULL, "ORIGINAL")
    IN  IF noList THEN [h2 EXCEPT ![m].f[M_viewpoints] = NULL] ELSE h2

\* Comment(guid, date, author, comment, modDate = modDate)
CommentElement(date, modDate) ==
    LET h == NewComment(2, 1, date, 1, 1, NULL, NULL, "ORIGINAL")
    IN  [h EXCEPT ![h[3].f[C_modDate]].val = modDate]

\* creation dates, and modification dates with the unset one
Dates == {1, 2}
ModDates == Dates \cup {NONE}

\* the elements the operations are applied to
Elements ==
    UNION {{Constructed(cls, v) : v \in FieldValues(cls)} : cls \in SerializedClasses}
    \cup {MarkupElement(guids, FALSE) : guids \in GuidLists}
    \cup {MarkupElement(<<>>, TRUE)}
    \cup {CommentElement(date, modDate) : date \in Dates, modDate \in ModDates}

InitElement ==
    /\ \E e \in Elements :
          heap = (DefaultComments :> ListObj(<<>>))
                 @@ (DefaultViewpoints :> ListObj(<<>>)) @@ e
    /\ top = 2
    /\ curProject = NULL
    /\ projectUpdates = <<>>
    /\ now = 0
    /\ last = Idle

\* an attribute or child node written to the XML element
Emitted(name, text) == [name |-> name, text |-> text]

\* `if value != defaultValue:` followed by the write of the node of field k
EmitUnlessDefault(h, a, k, value, text) ==
    IF value # DefaultValues(h[a].cls)[k]
    THEN <<Emitted(h[Field(h, a, k)].tag, text)>> ELSE <<>>

\* HeaderFile.getEtElement(elem)
HeaderFileEtElement(h, a) ==
    LET val(k) == Value(h, a, k)
    IN  EmitUnlessDefault(h, a, 3, val(3), Str(val(3)))
        \o EmitUnlessDefault(h, a, 2, val(2), val(2))
        \o EmitUnlessDefault(h, a, 1, val(1), val(1))
        \o EmitUnlessDefault(h, a, 4, val(4), val(4))
        \o EmitUnlessDefault(h, a, 5, val(5), Str(val(5)))
        \o EmitUnlessDefault(h, a, 6, val(6), Str(val(6)))

\* ViewpointReference.getEtElement(elem)
ViewpointReferenceEtElement(h, a) ==
    LET val(k) == Value(h, a, k)
    IN  <<Emitted("Guid", Str(h[a].val))>>
        \o EmitUnlessDefault(h, a, V_file, val(V_file), Str(val(V_file)))
        \o EmitUnlessDefault(h, a, V_snapshot, val(V_snapshot),
                             Str(val(V_snapshot)))
        \o EmitUnlessDefault(h, a, V_index, val(V_index), Str(val(V_index)))

\* DocumentReference.getEtElement(elem); the reference is compared as
\* `str(self.reference) != defaultValue`
DocumentReferenceEtElement(h, a) ==
    LET val(k) == Value(h, a, k)
    IN  EmitUnlessDefault(h, a, 1, val(1), Str(val(1)))
        \o EmitUnlessDefault(h, a, 2, val(2), Str(val(2)))
        \o EmitUnlessDefault(h, a, 3, Str(val(3)), Str(val(3)))
        \o EmitUnlessDefault(h, a, 4, val(4), val(4))

\* element.getEtElement(elem)
getEtElement ==
    /\ last.op = "idle"
    /\ heap[Element].cls \in SerializedClasses
    /\ last' = Returned("getEtElement", NoAuthor, "LIST", "none", <<>>, Element,
                        CASE heap[Element].cls = "HeaderFile" ->
                               HeaderFileEtElement(heap, Element)
                          [] heap[Element].cls = "ViewpointReference" ->
                               ViewpointReferenceEtElement(heap, Element)
                          [] heap[Element].cls = "DocumentReference" ->
                               DocumentReferenceEtElement(heap, Element))
    /\ UNCHANGED <<heap, top, curProject, projectUpdates, now>>

\* a lookup that returns the last match
getViewpointRefByGuid_Last(h, a, guid) ==
    LET resultList == SelectSeq(IF Field(h, a, M_viewpoints) = NULL THEN <<>>
                                ELSE viewpoints(h, a),
                                LAMBDA item : h[item].val = guid)
    IN  IF Len(resultList) >= 1 THEN resultList[Len(resultList)] ELSE NULL

\* Markup.getViewpointRefByGuid(guid)
getViewpointRefByGuid(h, a, guid) ==
    IF Field(h, a, M_viewpoints) = NULL THEN NULL
    ELSE LET resultList == SelectSeq(viewpoints(h, a),
                                     LAMBDA item : h[item].val = guid)
         IN  IF Len(resultList) >= 1 THEN resultList[1] ELSE NULL

\* markup.getViewpointRefByGuid(guid) on the markup under test
viewpointRefByGuid ==
    /\ last.op = "idle"
    /\ heap[Element].cls = "Markup"
    /\ \E guid \in AskedGuids :
         last' = Returned("getViewpointRefByGuid", NoAuthor, "LIST", "none",
                          <<guid>>, getViewpointRefByGuid(heap, Element, guid), <<>>)
    /\ UNCHANGED <<heap, top, curProject, projectUpdates, now>>

\* Uri(path): the Uri of a path is a value of its own, no path and no None
Uri(path) == 10 + path

\* the values a caller assigns to ViewpointReference.file, with their types
NewFiles ==
    {[type |-> "Uri", v |-> Uri(1)], [type |-> "Uri", v |-> Uri(2)],
     [type |-> "str", v |-> 1], [type |-> "str", v |-> 2],
     [type |-> "NoneType", v |-> NONE], [type |-> "int", v |-> 1]}

\* a setter that stores whatever it is given
setFile_Unchecked(h, a, newVal) ==
    [raised |-> FALSE, h |-> [h EXCEPT ![Field(h, a, V_file)].val = newVal.v]]

\* ViewpointReference.file setter: the heap after the assignment, or the
\* ValueError
setFile(h, a, newVal) ==
    IF newVal.type = "Uri"
    THEN [raised |-> FALSE, h |-> [h EXCEPT ![Field(h, a, V_file)].val = newVal.v]]
    ELSE IF newVal.type = "str"
    THEN [raised |-> FALSE,
          h |-> [h EXCEPT ![Field(h, a, V_file)].val = Uri(newVal.v)]]
    ELSE [raised |-> TRUE, h |-> h]

\* viewpointReference.file = newVal on the reference under test
fileSetter ==
    /\ last.op = "idle"
    /\ heap[Element].cls = "ViewpointReference"
    /\ \E newVal \in NewFiles :
        LET r == setFile(heap, Element, newVal)
        IN  /\ heap' = r.h
            /\ last' = Returned("file.setter", NoAuthor,
                                IF r.raised THEN "RAISED" ELSE "NONE", "none",
                                <<>>, Element, <<newVal>>)
    /\ UNCHANGED <<top, curProject, projectUpdates, now>>

\* the pieces of a formatted string: literal text, the text of a value,
\* and a date written by strftime with a format
Lit(s) == [kind |-> "literal", s |-> s, v |-> 0]
Txt(v) == [kind |-> "value", s |-> "", v |-> v]
Strftime(d, format) == [kind |-> "date", s |-> format, v |-> d]

\* ModificationDate(...).defaultValue
ModDateDefault == NONE

\* a string form that always names a modification date
CommentStr_Always(h, a) ==
    <<Txt(Value(h, a, C_comment)), Lit(" -- "), Txt(Value(h, a, C_author)),
      Lit(", "), Strftime(Value(h, a, C_date), "%Y-%m-%d %X"),
      Lit(" modified on "), Strftime(Value(h, a, C_modDate), "%Y-%m-%d %X")>>

\* Comment.__str__()
CommentStr(h, a) ==
    LET dateFormat == "%Y-%m-%d %X"
        ret_str == <<Txt(Value(h, a, C_comment)), Lit(" -- "),
                     Txt(Value(h, a, C_author)), Lit(", "),
                     Strftime(Value(h, a, C_date), dateFormat)>>
    IN  IF Value(h, a, C_modDate) # ModDateDefault
        THEN ret_str \o <<Lit(" modified on "),
                           Strftime(Value(h, a, C_modDate), dateFormat)>>
        ELSE ret_str

\* str(comment) on the comment under test
commentStr ==
    /\ last.op = "idle"
    /\ heap[Element].cls = "Comment"
    /\ last' = Returned("str", NoAuthor, "LIST", "none", <<>>, Element,
                        CommentStr(heap, Element))
    /\ UNCHANGED <<heap, top, curProject, projectUpdates, now>>

NextElement ==
    \/ Return
    \/ getEtElement
    \/ viewpointRefByGuid
    \/ fileSetter
    \/ commentStr
SpecElement == InitElement /\ [][NextElement]_vars

\* the node of field k of the serialized element was written
Written(k) ==
    \E i \in DOMAIN last.ret : last.ret[i].name = heap[Field(heap, last.node, k)].tag

\* C16: getEtElement of a HeaderFile, ViewpointReference or DocumentReference
\* writes the attribute or child node of an optional field if and only if
\* the value of the field differs from its declared default
C16_DefaultsAreOmitted ==
    last.op = "getEtElement" =>
        \A k \in DOMAIN DefaultValues(heap[last.node].cls) :
            Written(k) <=> Value(heap, last.node, k)
                            # DefaultValues(heap[last.node].cls)[k]


\* the viewpoint references of the markup under test, in list order
ViewpointsOfElement ==
    IF Field(heap, Element, M_viewpoints) = NULL THEN <<>>
    ELSE viewpoints(heap, Element)

\* the positions of the references with the GUID that was asked for
GuidMatches ==
    {i \in DOMAIN ViewpointsOfElement :
        heap[ViewpointsOfElement[i]].val = last.target[1]}

\* C17: getViewpointRefByGuid(guid) returns the first ViewpointReference in
\* list order whose GUID is guid, and None when the list is None, empty or
\* holds no reference with that GUID; never a reference with another GUID
C17_FirstViewpointWithGuid ==
    last.op = "getViewpointRefByGuid" =>
        IF GuidMatches = {} THEN last.node = NULL
        ELSE /\ last.node = ViewpointsOfElement[CHOOSE i \in GuidMatches :
                                                  \A j \in GuidMatches : i <= j]
             /\ heap[last.node].val = last.target[1]

\* the markup has two references with the GUID asked for, after one with
\* another GUID or none; the first of the two was returned
C17_Witness ==
    /\ last.op = "getViewpointRefByGuid"
    /\ Cardinality(GuidMatches) >= 2
    /\ last.node # NULL
    /\ last.node # ViewpointsOfElement[Len(ViewpointsOfElement)]


\* the file a ViewpointReference held before the assignment, and holds now
FileBefore == Value(Pre.heap, last.node, V_file)
FileNow == Value(heap, last.node, V_file)

\* C18: the file setter of ViewpointReference stores a Uri as given, stores
\* a string wrapped as a Uri, and rejects a value of any other type, None
\* included, with an error, the stored file staying what it was
C18_FileSetterChecksType ==
    last.op = "file.setter" =>
        LET newVal == last.ret[1]
        IN  CASE newVal.type = "Uri" ->
                   last.result # "RAISED" /\ FileNow = newVal.v
              [] newVal.type = "str" ->
                   last.result # "RAISED" /\ FileNow = Uri(newVal.v)
              [] OTHER ->
                   last.result = "RAISED" /\ FileNow = FileBefore

\* None was assigned to a reference that held a file, and was rejected
C18_Witness ==
    /\ last.op = "file.setter"
    /\ last.ret[1].type = "NoneType"
    /\ last.result = "RAISED"
    /\ FileBefore # NONE
    /\ FileNow = FileBefore


\* "<text> -- <author>, <creation date as YYYY-MM-DD HH:MM:SS>"
TextAuthorDate ==
    <<Txt(Value(heap, last.node, C_comment)), Lit(" -- "),
      Txt(Value(heap, last.node, C_author)), Lit(", "),
      Strftime(Value(heap, last.node, C_date), "%Y-%m-%d %X")>>

\* " modified on <modification date>"
ModifiedOn ==
    <<Lit(" modified on "),
      Strftime(Value(heap, last.node, C_modDate), "%Y-%m-%d %X")>>

\* C19: str(comment) is "<text> -- <author>, <creation date>", followed by
\* " modified on <modification date>" if and only if the modification date
\* of the comment is not the unset one
C19_CommentString ==
    last.op = "str" =>
        IF Value(heap, last.node, C_modDate) # NONE
        THEN last.ret = TextAuthorDate \o ModifiedOn
        ELSE last.ret = TextAuthorDate

\* the string of a comment that was modified on the day it was created
C19_Witness ==
    /\ last.op = "str"
    /\ Value(heap, last.node, C_modDate) = Value(heap, last.node, C_date)
    /\ Len(last.ret) = Len(TextAuthorDate) + 2


\* ---------------------------------------------------------------- comments
\* the node of class cls of the open project with internal id `id`, if any
NodesWithId(cls, id) ==
    {a \in LiveNodes \ {NULL} : heap[a].cls = cls /\ heap[a].id = id}

\* getComments was called with a topic of the open project and with no
\* viewpoint or with a viewpoint of the open project
CommentsAsked ==
    /\ last.op = "getComments"
    /\ curProject # NULL
    /\ NodesWithId("Topic", last.target[1]) # {}
    /\ Len(last.target) = 2 => NodesWithId("Viewpoint", last.target[2]) # {}

\* the comments of the markup that holds the topic
CommentsOfTopic ==
    LET ms == {m \in LiveNodes \ {NULL} :
                 /\ heap[m].cls = "Markup"
                 /\ heap[Field(heap, m, M_topic)].id = last.target[1]}
    IN  comments(heap, CHOOSE m \in ms : TRUE)

\* the internal ids of the viewpoint references that contain the viewpoint
ReferencesOfViewpoint ==
    {heap[v].id : v \in {r \in LiveNodes \ {NULL} :
        /\ heap[r].cls = "ViewpointReference"
        /\ Field(heap, r, V_viewpoint) # NULL
        /\ heap[Field(heap, r, V_viewpoint)].id = last.target[2]}}

\* the comments the call is to return, as a set of positions in the list
CommentsWanted ==
    {i \in DOMAIN CommentsOfTopic :
        \/ Len(last.target) = 1
        \/ /\ Field(heap, CommentsOfTopic[i], C_viewpoint) # NULL
           /\ heap[Field(heap, CommentsOfTopic[i], C_viewpoint)].id
                \in ReferencesOfViewpoint}

\* the creation date of the comment with internal id `id`
DateOfComment(id) ==
    Value(heap, CHOOSE c \in Range(CommentsOfTopic) : heap[c].id = id, C_date)

\* C20: getComments(topic, viewpoint) returns one entry per comment of the
\* markup of the topic, oldest creation date first; with a viewpoint it
\* returns exactly the comments whose viewpoint reference is the one that
\* contains the viewpoint, in the same order
C20_CommentsSortedAndFiltered ==
    CommentsAsked =>
        /\ last.result = "LIST"
        /\ Len(last.ret) = Cardinality(CommentsWanted)
        /\ Range(last.ret) = {heap[CommentsOfTopic[i]].id : i \in CommentsWanted}
        /\ \A i, j \in DOMAIN last.ret :
              i < j => DateOfComment(last.ret[i]) <= DateOfComment(last.ret[j])


\* ------------------------------------------------------ deleting a comment
\* the comments below the node p, which is the open project
CommentsIn(h, p) == {a \in Down(h, {p}) \ {NULL} : h[a].cls = "Comment"}

\* modifyComment was given the empty text and a comment of the open project,
\* and returned SUCCESS
EmptyTextCall ==
    /\ last.op = "modifyCommentEmpty"
    /\ last.result = "SUCCESS"
    /\ IsA(Pre.heap, Pre.curProject, "Project")
    /\ last.target[1] # UnknownId

\* C21: whenever modifyComment(comment, "", author) returns SUCCESS for a
\* comment of the open project, no comment list of the live project holds a
\* comment with that id any more, and every other comment of the project is
\* there as it was
C21_EmptyTextDeletes ==
    EmptyTextCall =>
        /\ \A c \in CommentsIn(heap, curProject) : heap[c].id # last.target[1]
        /\ \A c \in CommentsIn(Pre.heap, Pre.curProject) :
              Pre.heap[c].id # last.target[1]
                 => \E d \in CommentsIn(heap, curProject) :
                       Shape(heap, d) = Shape(Pre.heap, c)


\* --------------------------------------------------------- opening a project
\* C22: when the file does not exist or the reader returns None, openProject
\* returns FAILURE and the current project, or None, and all its nodes stay
\* what they were; when the reader returns a project, openProject returns
\* SUCCESS and the current project is that new project, the one that was
\* open before being current no more
C22_OpenProject ==
    last.op = "openProject" =>
        IF ~last.ret[1].exists \/ last.ret[1].read = "None"
        THEN /\ last.result = "FAILURE"
             /\ curProject = Pre.curProject
             /\ heap = Pre.heap
        ELSE /\ last.result = "SUCCESS"
             /\ curProject = last.node
             /\ IsA(heap, curProject, "Project")
             /\ curProject \notin DOMAIN Pre.heap
             /\ curProject # Pre.curProject
             /\ Pre.curProject \notin Down(heap, {curProject})

\* a project was read while another one was open
C22_Witness ==
    /\ last.op = "openProject"
    /\ last.result = "SUCCESS"
    /\ IsA(Pre.heap, Pre.curProject, "Project")
    /\ Len(topicList(heap, curProject)) > 0


\* ---------------------------------------------------------- previous values
\* modifyComment with a text, or addViewpointToComment, reached the writer
WrapperUpdateCall ==
    /\ last.op \in {"modifyComment", "addViewpointToComment"}
    /\ last.commit # "none"

\* the updates the call submitted on top of those that were pending, for
\* field wrappers
WrapperUpdates ==
    {i \in DOMAIN last.ret :
        /\ i > Len(Pre.projectUpdates)
        /\ last.ret[i].node # NULL
        /\ Pre.heap[last.ret[i].node].cls \in WrapperClasses}

\* C23: every update modifyComment and addViewpointToComment submit for a
\* field wrapper (text, modDate, modAuthor) carries as previous value the
\* value that wrapper held immediately before the call
C23_PreviousValues ==
    WrapperUpdateCall =>
        \A i \in WrapperUpdates :
            last.ret[i].prev = Pre.heap[last.ret[i].node].val


\* ------------------------------------------------------- deleting an object
\* deleteObject was given a node of the open project, or a deep copy of
\* one, and handed its update to the writer
DeleteSubmitted ==
    /\ last.op = "deleteObject"
    /\ last.commit # "none"
    /\ last.target[1] # UnknownId

\* the update deleteObject submitted
DeleteUpdate == last.ret[Len(last.ret)]

\* the nodes the project had before the call with the id of the argument
DeleteTargets ==
    {a \in Down(Pre.heap, {Pre.curProject}) \ {NULL} :
        Pre.heap[a].id = last.target[1]}

\* C24: the node deleteObject hands to the update queue is the node with
\* the internal id of the argument (its copy in the copied project), it has
\* state DELETED when it is submitted, and after a SUCCESS no collection
\* of the live project has a member with that id
C24_DeleteSubmitsRightNode ==
    DeleteSubmitted =>
        /\ Len(last.ret) = Len(Pre.projectUpdates) + 1
        /\ DeleteUpdate.node \in {a + Pre.top : a \in DeleteTargets}
        /\ DeleteUpdate.st = "DELETED"
        /\ last.result = "SUCCESS"
              => \A c \in Collections : \A x \in Range(c[2]) :
                    heap[x].id # last.target[1]


\* ------------------------------------------------------- frame of addComment
\* the markups of the live project that hold another topic than the one
\* addComment was given
OtherMarkups ==
    {m \in Range(topicList(heap, curProject)) :
        heap[Field(heap, m, M_topic)].id # last.target[1]}

\* C25: a successful addComment(T, ...) leaves the comment list and the
\* viewpoint list of the markup of every other topic of the project as they
\* were, the topics created by addTopic included
C25_AddCommentFrame ==
    (last.op = "addComment" /\ last.result = "SUCCESS") =>
        \A m \in OtherMarkups :
            /\ m \in DOMAIN Pre.heap
            /\ comments(heap, m) = comments(Pre.heap, m)
            /\ viewpoints(heap, m) = viewpoints(Pre.heap, m)


\* ------------------------------------------------- modifying a node in place
\* the members of the node p: its fields and the items of its lists
MembersOf(h, p) ==
    UNION {IF h[x].cls = "list" THEN Range(h[x].f) \ {NULL} ELSE {x} :
              x \in Range(Children(h, p))}

\* the node of the live project modifyElement finds now for the element it
\* was given, and the parent the node it found then had before the call
NodeNow == SearchObject(heap, curProject, Pre.heap[last.node])
ParentBefore == Pre.heap[last.node].co

\* C26: after a successful modifyElement(element, author) the node found in
\* the live project by the internal id of the element is the node that was
\* found before, has that id, is a member of the parent it had, has that
\* live parent as containingObject, and getTopic on it returns the live
\* topic it returned before
C26_ModifyKeepsNodeInPlace ==
    (last.op = "modifyElement" /\ last.result = "SUCCESS") =>
        /\ NodeNow = last.node
        /\ heap[NodeNow].id = last.target[1]
        /\ ParentBefore \in LiveNodes
        /\ NodeNow \in MembersOf(heap, ParentBefore)
        /\ heap[NodeNow].co = ParentBefore
        /\ getTopic(heap, NodeNow) = getTopic(Pre.heap, last.node)


\* ------------------------------------------- linking a viewpoint to a comment
\* the viewpoint references in the viewpoint lists of the live project
ListedViewpoints == UNION {Range(viewpoints(heap, m)) : m \in Markups}

\* C27: after a successful addViewpointToComment(comment, viewpoint, author)
\* the viewpoint of the live comment is the ViewpointReference with the id
\* of the given viewpoint that is a member of a viewpoint list of the live
\* project, and the modDate and modAuthor of the comment are set
C27_ViewpointLinksLiveNode ==
    (last.op = "addViewpointToComment" /\ last.result = "SUCCESS") =>
        /\ Field(heap, last.node, C_viewpoint) # NULL
        /\ heap[Field(heap, last.node, C_viewpoint)].id = last.target[2]
        /\ Field(heap, last.node, C_viewpoint) \in ListedViewpoints
        /\ Value(heap, last.node, C_modDate) # NONE
        /\ Value(heap, last.node, C_modAuthor) = last.author[1]


\* ------------------------------------------------------------ IFC guids
\* a valid IFC guid: exactly 22 characters, each alphanumeric, '_' or '$'
ValidIfcGuid(guid) ==
    /\ IfcGuidText(guid).len = 22
    /\ IfcGuidText(guid).chars \subseteq {"alnum", "_", "$"}

\* addFile built a HeaderFile
FileAdded == last.op = "addFile" /\ last.node # NULL

ReportedGuids ==
    {k \in {1, 2} : ReportedAsInvalid(Value(heap, last.node, k))}


\* ------------------------------------------------- copying a file to the project
\* The working directory of the reader (reader.bcfDir) is kept as one more
\* cell of the heap, of class Directory, whose `f` is the set of the paths
\* that exist below it.  A path is a directory (<<>> is bcfDir itself,
\* <<guid>> the directory of a topic) and a file name; a file name is the
\* sequence of its parts between the dots, each part a text and the counters
\* "(i)" appended to it.

\* address of the cell of reader.bcfDir
BcfDir == 3

Part(s) == [s |-> s, n |-> <<>>]
Path(dir, file) == [dir |-> dir, file |-> file]

\* os.path.basename(path), the name of the file that is copied
SrcFileName == <<Part("name"), Part("ext")>>

\* the destName argument: "" (here <<>>), the name of the source, or a name
\* without a dot
DestNames == {<<>>, SrcFileName, <<Part("name")>>}

\* a rename that counts on the name it renamed before
Renamed_Again(file, dstFileName, i) ==
    [file EXCEPT ![1].n = Append(@, i)]

\* splitFN = dstFileName.split("."); splitFN[0] += "({})".format(i);
\* file = ".".join(splitFN): `file`, the name in destPath, is overwritten
Renamed(file, dstFileName, i) ==
    [dstFileName EXCEPT ![1].n = Append(@, i)]

RECURSIVE RenameLoop(_, _, _, _)
\* while os.path.exists(destPath): dir, file = os.path.split(destPath); ...
\* destPath = os.path.join(dir, file); i += 1
RenameLoop(files, dstFileName, destPath, i) ==
    IF destPath \notin files THEN destPath
    ELSE RenameLoop(files, dstFileName,
                    Path(destPath.dir, Renamed(destPath.file, dstFileName, i)),
                    i + 1)

\* the topic argument of copyFileToProject: None, or what Args hands out
TopicOrNone == Args("Topic") \cup {Unknown("None")}

\* copyFileToProject(path, destName = "", topic = None)
copyFileToProject ==
    /\ last.op = "idle"
    /\ IsA(heap, BcfDir, "Directory")
    /\ \E exists \in BOOLEAN, destName \in DestNames, topic \in TopicOrNone :
       \E realTopic \in {searchRealTopic(heap, topic)} :
        LET dstFileName == IF destName = <<>> THEN SrcFileName ELSE destName
            dir == IF topic.cls = "None" THEN <<>> ELSE <<heap[realTopic].val>>
            first == Path(dir, dstFileName)
            destPath == RenameLoop(heap[BcfDir].f, dstFileName, first, 1)
            given == IF topic.cls = "None" THEN <<>> ELSE <<topic.id>>
        IN  IF ~exists \/ ~isProjectOpen
                \/ (topic.cls # "None" /\ realTopic = NULL)
            THEN Fails("copyFileToProject", NoAuthor, "FAILURE", given)
            ELSE \* shutil.copyfile(path, destPath); the function returns None
                 /\ heap' = [heap EXCEPT ![BcfDir].f = @ \cup {destPath}]
                 /\ now' = now + 1
                 /\ last' = Returned("copyFileToProject", NoAuthor, "NONE", "none",
                                     given, NULL, <<destPath, first>>)
                 /\ UNCHANGED <<top, curProject, projectUpdates>>

\* the name of the source with the counter k, 0 for none
Numbered(k) ==
    IF k = 0 THEN SrcFileName ELSE [SrcFileName EXCEPT ![1].n = <<k>>]

\* the directories of a project: bcfDir and one per topic
DirsOf(h, p) ==
    {<<>>} \cup (IF p = NULL THEN {}
                 ELSE {<<h[Field(h, m, M_topic)].val>> : m \in Range(topicList(h, p))})

\* no project (n = 0) or the project the reader built from a file with n
\* topics is open; in each directory the files numbered by `ks` exist
InitCopy ==
    /\ \E n \in 0 .. MaxReaderTopics, ks \in SUBSET (0 .. MaxExisting) :
        LET p == IF n = 0 THEN NULL ELSE BcfDir + 1
            h == IF n = 0 THEN << >> ELSE readBcfFile(<< >>, BcfDir, n)
        IN  /\ heap = (DefaultComments :> ListObj(<<>>))
                      @@ (DefaultViewpoints :> ListObj(<<>>))
                      @@ (BcfDir :> Obj("Directory", 0, "NONE", NULL, 0, "bcfDir",
                             {Path(d, Numbered(k)) : d \in DirsOf(h, p), k \in ks}))
                      @@ h
            /\ curProject = p
            /\ top = BcfDir + ReadSize(n)
    /\ projectUpdates = <<>>
    /\ now = 0
    /\ last = Idle

NextCopy ==
    \/ Return
    \/ now < MaxCopies /\ copyFileToProject
SpecCopy == InitCopy /\ [][NextCopy]_vars

\* copyFileToProject copied the file
FileCopied == last.op = "copyFileToProject" /\ last.result = "NONE"

\* the path the file was copied to, the path asked for, and the paths that
\* existed before the call
CopiedTo == last.ret[1]
AskedPath == last.ret[2]
ExistedBefore == Pre.heap[BcfDir].f

\* name.ext for k = 0 and name(k).ext for k > 0, in the directory asked for
Candidate(k) ==
    IF k = 0 THEN AskedPath
    ELSE Path(AskedPath.dir, [AskedPath.file EXCEPT ![1].n = Append(@, k)])

\* C29: copyFileToProject ends for every set of files in the destination
\* directory; the path it copies to did not exist before the call and is the
\* first non-existing one among name.ext, name(1).ext, name(2).ext, ...; no
\* path that existed is lost
C29_CopyNeverOverwrites ==
    FileCopied =>
        /\ CopiedTo \notin ExistedBefore
        /\ heap[BcfDir].f = ExistedBefore \cup {CopiedTo}
        /\ \E k \in 0 .. Cardinality(ExistedBefore) :
              /\ CopiedTo = Candidate(k)
              /\ \A j \in 0 .. k - 1 : Candidate(j) \in ExistedBefore

\* the file went to name(2).ext in the directory of a topic, where name.ext
\* and name(1).ext existed
C29_Witness ==
    /\ FileCopied
    /\ AskedPath.dir # <<>>
    /\ CopiedTo = Candidate(2)
    /\ {Candidate(0), Candidate(1)} \subseteq ExistedBefore


\* ------------------------------------------------------------ read operations
ReadOps == {"getTopics", "getComments", "getViewpoints", "getRelevantIfcFiles",
            "getAdditionalDocumentReferences"}

\* the nodes of the live project whose deep copies the call returned
ReturnedFrom ==
    {a \in LiveNodes \ {NULL} :
        heap[a].cls # "list" /\ heap[a].id # 0 /\ heap[a].id \in Range(last.ret)}

\* the object the call returned for the live node a, as copy.deepcopy builds
\* it: the heap with the copy, and the cells of the copy in that heap
ReturnedHeap(a) == DeepCopy(heap, a, top)
ReturnedCells(hc, a) == Down(hc, {a + top})

\* what a caller can do to a cell of an object it was given
Mutated(h, x) == [h EXCEPT ![x].val = NewValue, ![x].state = "MODIFIED",
                           ![x].f = <<>>]

====
